---- MODULE Spec2Model ----
(***************************************************************************)
(* Per-block reward allocation of the distribution keeper                  *)
(* (x/distribution/keeper/allocation.go, the variant with voter ratio,     *)
(* optional beneficiary and burn list), specification Spec for one block  *)
(* and SequenceSpec for several blocks one after the other, and the        *)
(* validator store and lifecycle of the staking keeper                     *)
(* (x/staking/keeper/validator.go): specification StakingSpec for the      *)
(* operations on validators, UnbondingSpec and QueueSpec for the unbonding *)
(* queue, LiveSpec for the end of block maturation under fairness, and     *)
(* EvmSpec for the creation of validators through the EVM callbacks.       *)
(*                                                                         *)
(* Decimal amounts (LegacyDec, DecCoins) are fixed-point integers: the     *)
(* decimal d is the integer d * Precision.  Integer coin amounts (Int,     *)
(* Coins) are plain integers.  Coins and DecCoins are functions from the   *)
(* denominations to amounts; a denomination that a Go coin list does not   *)
(* hold has amount 0 here.                                                 *)
(***************************************************************************)
EXTENDS Integers, Sequences, FiniteSets, TLC

\* ------------------------------------------------------------------------
\* Bounds and the universe of inputs
\* ------------------------------------------------------------------------

\* one whole unit of a LegacyDec in its integer representation: the library
\* keeps 18 decimal digits, the model keeps 2, so that a community tax of
\* 0.02 is 2 and a ratio of 0.10 is 10
Precision == 100

\* longest bondedVotes list
MaxVotes == 2

\* most bank operations that are told to fail during one call
MaxFailures == 1

Denoms == {"stake", "gas"}

\* operator address bytes of the validators the staking store holds
Validators == {"A", "B"}

\* the validator value returned for a consensus address with no record
Nil == "nil"

\* consensus addresses a vote may carry; "cX" has no validator record
ConsAddrs == {"cA", "cB", "cX"}

TotalPowers == {0, 3, 100}

\* the empty string of a parameter
NoAddr == <<>>

\* bech32 strings: <<human readable prefix, address bytes>>
AccString(b) == <<"acc", b>>

ValString(b) == <<"valoper", b>>

ZeroCoins == [d \in Denoms |-> 0]

Stake(n) == [d \in Denoms |-> IF d = "stake" THEN n ELSE 0]

StakeGas(n, m) == [d \in Denoms |-> IF d = "stake" THEN n ELSE m]

\* balances the fee collector may hold at the start of a block
FeeChoices == {Stake(1000), StakeGas(10, 3)}

CommunityTaxes == {0, 2}

Ratios == {0, 10, 100, 150}

Beneficiaries == {NoAddr, AccString("T"), ValString("T")}

BurnLists == {<<>>, <<ValString("A")>>, <<AccString("T"), AccString("B")>>}

ParamChoices ==
    [CommunityTax : CommunityTaxes,
     VoterRewards : [Ratio : Ratios, BeneficiaryAddr : Beneficiaries],
     BurnValidators : BurnLists]

\* bank failure injected while one vote is processed
FailChoices == {"none", "voter", "miner"}

\* a vote carries the consensus address and the power of its validator
Votes ==
    {[Address |-> "cA", Power |-> 1], [Address |-> "cA", Power |-> 100],
     [Address |-> "cB", Power |-> 2], [Address |-> "cX", Power |-> 1]}

RECURSIVE SeqsUpTo(_, _)
SeqsUpTo(S, n) ==
    IF n = 0 THEN {<<>>}
    ELSE LET shorter == SeqsUpTo(S, n - 1)
         IN shorter \cup {Append(s, x) : s \in {t \in shorter : Len(t) = n - 1}, x \in S}

\* one vote per consensus address, as the consensus engine supplies them
VoteLists ==
    {vs \in SeqsUpTo(Votes, MaxVotes) :
        \A i, j \in 1..Len(vs) : i # j => vs[i].Address # vs[j].Address}

FailListsOf ==
    [n \in 0..MaxVotes |->
        {fs \in [1..n -> FailChoices] :
            Cardinality({i \in 1..n : fs[i] # "none"}) <= MaxFailures}]

FailLists(n) == FailListsOf[n]

NoFails(n) == [i \in 1..n |-> "none"]

\* most tokens a validator holds
MaxTokens == 2

\* latest block time; block heights and completion heights go as far
MaxTime == 2

\* most unbondings begun in one behaviour
MaxUnbondings == 2

\* most holds on the unbonding of one validator
MaxHolds == 1

\* most addresses in the unbonding queue when one more is inserted directly
MaxQueued == 2

\* most blocks whose fees are allocated one after the other
MaxCalls == 2

\* operator address bytes the staking messages may name
Operators == {"A", "B"}

\* consensus addresses derived from the public keys the messages may carry
ConsKeys == {"cA", "cB"}

\* the value of GetValidator when found is false
NoValidator == [found |-> FALSE]

\* the value of a store Get for a key that is not set
NoOperator == "none"

\* the bytes of a store Get for a key that holds no message
NoBytes == [found |-> FALSE]

\* consensus power of one token unit times this
PowerReduction == 2

\* staking Params: the bondable denomination and the commission rate floor
BondDenom == "stake"

MinCommissionRate == 5

\* (completion time, completion height) of the unbondings that are begun:
\* one early in both, one with a late height and one with a late time
CompletionKeys == {<<1, 1>>, <<1, 2>>, <<2, 1>>}

\* the completion keys whose height comes with the first block
EarlyCompletionKeys == {k \in CompletionKeys : k[2] = 1}

\* ------------------------------------------------------------------------
\* State
\* ------------------------------------------------------------------------
VARIABLES
    params,             \* distribution Params: CommunityTax, VoterRewards, BurnValidators
    feeCollector,       \* Coins held by the fee collector module account
    moduleBalance,      \* Coins held by the distribution module account
    beneficiaryBalance, \* Coins received by the voter reward beneficiary account
    burned,             \* Coins burned from the distribution module account
    communityPool,      \* FeePool.CommunityPool (DecCoins)
    currentRewards,     \* validator -> ValidatorCurrentRewards.Rewards (DecCoins)
    outstandingRewards, \* validator -> ValidatorOutstandingRewards.Rewards (DecCoins)
    pc,                 \* "block": before AllocateTokens; "returned"; "aborted" (panic)
    pre,                \* the store at the entry of the last AllocateTokens call
    call                \* inputs and observed outcome of the last AllocateTokens call

allocVars == <<params, feeCollector, moduleBalance, beneficiaryBalance, burned,
               communityPool, currentRewards, outstandingRewards, pc, pre, call>>

VARIABLES
    validatorRecords,       \* operator -> Validator record under ValidatorsKey, or NoValidator
    validatorsByConsAddr,   \* consensus address -> operator under ValidatorsByConsAddrKey
    validatorsByPowerIndex, \* keys <<power, operator>> under ValidatorsByPowerIndexKey
    validatorQueue,         \* <<time, height>> -> address strings under ValidatorQueueKey
    unbondingIndex,         \* unbonding ids that have an index entry
    unbondingId,            \* the unbonding id counter
    blockTime,              \* ctx.BlockTime()
    blockHeight,            \* ctx.BlockHeight()
    skPc,                   \* "run", or "aborted" after a panic of a staking operation
    skCall                  \* the last staking operation, its inputs and its outcome

stakingVars == <<validatorRecords, validatorsByConsAddr, validatorsByPowerIndex,
                 validatorQueue, unbondingIndex, unbondingId, blockTime, blockHeight,
                 skPc, skCall>>

VARIABLES
    accountBalance,         \* account address bytes -> Coins the bank holds for the account
    notBondedPool,          \* Coins of the not bonded pool module account
    createValidatorMsgs     \* operator address bytes -> the message stored under them, or NoBytes

evmVars == <<accountBalance, notBondedPool, createValidatorMsgs>>

vars == <<allocVars, stakingVars, evmVars>>

\* ------------------------------------------------------------------------
\* Decimal and coin arithmetic (cosmossdk.io/math LegacyDec, sdk.DecCoins)
\* ------------------------------------------------------------------------

\* big.Int Quo: integer division truncated toward zero
QuoInt(x, y) == IF x >= 0 THEN x \div y ELSE -((-x) \div y)

\* math.LegacyNewDec(n): the decimal with integer value n
LegacyNewDec(n) == n * Precision

\* math.LegacyOneDec()
LegacyOneDec == LegacyNewDec(1)

\* LegacyDec.Mul in the place of MulTruncate: the product rounded to the
\* nearest digit
MulTruncate_Rounded(a, b) == QuoInt(2 * a * b + Precision, 2 * Precision)

\* LegacyDec.MulTruncate: the product with the digits past the precision chopped
MulTruncate(a, b) == QuoInt(a * b, Precision)

\* LegacyDec.QuoRoundUp in the place of QuoTruncate
QuoTruncate_RoundUp(a, b) == QuoInt(a * Precision + b - 1, b)

\* LegacyDec.QuoTruncate: the quotient with the digits past the precision chopped
QuoTruncate(a, b) == QuoInt(a * Precision, b)

\* LegacyDec.TruncateInt: the whole units of a decimal
TruncateInt(a) == QuoInt(a, Precision)

\* sdk.NewDecCoinsFromCoins
NewDecCoinsFromCoins(coins) == [d \in Denoms |-> LegacyNewDec(coins[d])]

\* DecCoins.MulDecTruncate
MulDecTruncate(dcs, dec) == [d \in Denoms |-> MulTruncate(dcs[d], dec)]

\* DecCoins.Add / Coins.Add
CoinsAdd(a, b) == [d \in Denoms |-> a[d] + b[d]]

\* the difference DecCoins.SafeSub computes; DecCoins.Sub panics when
\* IsAnyNegative holds of it
CoinsSub(a, b) == [d \in Denoms |-> a[d] - b[d]]

IsAnyNegative(dcs) == \E d \in Denoms : dcs[d] < 0

\* DecCoins2Coins that rounds every decimal coin up to the next whole unit
DecCoins2Coins_RoundUp(dcs) == [d \in Denoms |-> (dcs[d] + Precision - 1) \div Precision]

\* Keeper.DecCoins2Coins: every decimal coin truncated to its whole units
DecCoins2Coins(dcs) == [d \in Denoms |-> TruncateInt(dcs[d])]

\* ------------------------------------------------------------------------
\* Addresses
\* ------------------------------------------------------------------------

\* sdk.AccAddressFromBech32: fails unless the string carries the account prefix
AccAddressFromBech32(s) ==
    IF s # NoAddr /\ s[1] = "acc" THEN [err |-> FALSE, bytes |-> s[2]]
    ELSE [err |-> TRUE, bytes |-> Nil]

\* stakingKeeper.ValidatorByConsAddr: the validator whose consensus address
\* is addr, or nil
ValidatorByConsAddr(addr) ==
    CASE addr = "cA" -> "A"
      [] addr = "cB" -> "B"
      [] OTHER -> Nil

\* Keeper.isBurnValidator, for a validator that is not nil
RECURSIVE isBurnValidatorFrom(_, _, _)
isBurnValidatorFrom(validator, burnValidators, i) ==
    IF i > Len(burnValidators) THEN FALSE
    ELSE LET v == burnValidators[i]
             oper == ValString(validator)
             acc == AccAddressFromBech32(v)
         IN IF v = oper THEN TRUE
            ELSE IF ~acc.err /\ ValString(acc.bytes) = oper THEN TRUE
            ELSE isBurnValidatorFrom(validator, burnValidators, i + 1)

\* isBurnValidator that compares the operator string only, and so misses a
\* burn list entry given as an account address
isBurnValidator_OperatorStringOnly(validator, burnValidators) ==
    \E i \in 1..Len(burnValidators) : burnValidators[i] = ValString(validator)

isBurnValidator(validator, burnValidators) ==
    isBurnValidatorFrom(validator, burnValidators, 1)

\* ------------------------------------------------------------------------
\* The store during one AllocateTokens call
\* ------------------------------------------------------------------------
NoAbort == "none"

Store ==
    [feeCollector |-> feeCollector,
     moduleBalance |-> moduleBalance,
     beneficiaryBalance |-> beneficiaryBalance,
     burned |-> burned,
     communityPool |-> communityPool,
     currentRewards |-> currentRewards,
     outstandingRewards |-> outstandingRewards]

\* a panic: the call stops with the store as it is
Abort(st, reason) == [st EXCEPT !.abort = reason]

\* the bank refuses a debit of the distribution module account when it is
\* told to fail or the account does not hold the coins
BankError(st, coins, injected) ==
    injected \/ \E d \in Denoms : st.moduleBalance[d] < coins[d]

\* a transfer that credits the receiver and leaves the coins with the sender
SendCoinsFromModuleToModule_NoDebit(st, coins) ==
    [st EXCEPT !.moduleBalance = CoinsAdd(@, coins)]

\* bankKeeper.SendCoinsFromModuleToModule(feeCollector, distribution), on success
SendCoinsFromModuleToModule(st, coins) ==
    [st EXCEPT !.feeCollector = CoinsSub(@, coins),
               !.moduleBalance = CoinsAdd(@, coins)]

\* bankKeeper.SendCoinsFromModuleToAccount(distribution, beneficiary), on success
SendCoinsFromModuleToAccount(st, coins) ==
    [st EXCEPT !.moduleBalance = CoinsSub(@, coins),
               !.beneficiaryBalance = CoinsAdd(@, coins)]

\* bankKeeper.BurnCoins(distribution), on success
BurnCoins(st, coins) ==
    [st EXCEPT !.moduleBalance = CoinsSub(@, coins),
               !.burned = CoinsAdd(@, coins)]

\* AllocateTokensToValidator without the update of the outstanding rewards
AllocateTokensToValidator_CurrentOnly(st, val, tokens) ==
    [st EXCEPT !.currentRewards[val] = CoinsAdd(@, tokens)]

\* Keeper.AllocateTokensToValidator
AllocateTokensToValidator(st, val, tokens) ==
    [st EXCEPT !.currentRewards[val] = CoinsAdd(@, tokens),
               !.outstandingRewards[val] = CoinsAdd(@, tokens)]

\* the second half of burnOrAllocateTokensToValidator: the miner reward
burnOrAllocateMiner(st, validator, minerReward, fail, res) ==
    IF validator = Nil
    THEN \* GetOperator on a nil validator
         IF Len(params.BurnValidators) > 0
         THEN Abort(st, "nil validator in isBurnValidator")
         ELSE Abort(st, "nil validator in AllocateTokensToValidator")
    ELSE IF isBurnValidator(validator, params.BurnValidators)
    THEN LET coins == DecCoins2Coins(minerReward)
         IN IF BankError(st, coins, fail = "miner")
            THEN [st EXCEPT !.results = Append(@, [res EXCEPT !.minerOp = "error"])]
            ELSE [BurnCoins(st, coins) EXCEPT
                     !.results = Append(@, [res EXCEPT !.minerOp = "burned"])]
    ELSE [AllocateTokensToValidator(st, validator, minerReward) EXCEPT
             !.results = Append(@, [res EXCEPT !.minerOp = "credited"])]

\* Keeper.burnOrAllocateTokensToValidator
burnOrAllocateTokensToValidator(st, validator, reward, fail) ==
    LET vr == params.VoterRewards
        voterReward == MulDecTruncate(reward, vr.Ratio)
        minerReward == CoinsSub(reward, voterReward)
        voterCoins == DecCoins2Coins(voterReward)
        res == [validator |-> validator, reward |-> reward,
                voterReward |-> voterReward, minerReward |-> minerReward,
                voterOp |-> "error", minerOp |-> "skipped"]
    IN IF IsAnyNegative(minerReward)
       THEN Abort(st, "negative miner reward")
       ELSE IF vr.BeneficiaryAddr # NoAddr
       THEN IF AccAddressFromBech32(vr.BeneficiaryAddr).err
            THEN Abort(st, "beneficiary address invalid")
            ELSE IF BankError(st, voterCoins, fail = "voter")
            THEN [st EXCEPT !.results = Append(@, res)]
            ELSE burnOrAllocateMiner(SendCoinsFromModuleToAccount(st, voterCoins),
                                     validator, minerReward, fail,
                                     [res EXCEPT !.voterOp = "sent"])
       ELSE IF BankError(st, voterCoins, fail = "voter")
            THEN [st EXCEPT !.results = Append(@, res)]
            ELSE burnOrAllocateMiner(BurnCoins(st, voterCoins),
                                     validator, minerReward, fail,
                                     [res EXCEPT !.voterOp = "burned"])

\* the loop with every reward taken from what remains of the fees after the
\* earlier votes
RECURSIVE AllocateVotes_FromRemaining(_, _, _, _, _, _)
AllocateVotes_FromRemaining(st, totalPreviousPower, bondedVotes, fails, feeMultiplier, i) ==
    IF i > Len(bondedVotes) \/ st.abort # NoAbort THEN st
    ELSE LET vote == bondedVotes[i]
             validator == ValidatorByConsAddr(vote.Address)
             powerFraction == QuoTruncate(LegacyNewDec(vote.Power),
                                          LegacyNewDec(totalPreviousPower))
             reward == MulDecTruncate(st.remaining, powerFraction)
             st1 == burnOrAllocateTokensToValidator(st, validator, reward, fails[i])
             remaining == CoinsSub(st.remaining, reward)
             st2 == IF st1.abort # NoAbort THEN st1
                    ELSE IF IsAnyNegative(remaining)
                    THEN Abort(st1, "negative remaining")
                    ELSE [st1 EXCEPT !.remaining = remaining]
         IN AllocateVotes_FromRemaining(st2, totalPreviousPower, bondedVotes, fails,
                                        feeMultiplier, i + 1)

\* the loop of AllocateTokens over bondedVotes, from vote i on
RECURSIVE AllocateVotes(_, _, _, _, _, _)
AllocateVotes(st, totalPreviousPower, bondedVotes, fails, feeMultiplier, i) ==
    IF i > Len(bondedVotes) \/ st.abort # NoAbort THEN st
    ELSE LET vote == bondedVotes[i]
             validator == ValidatorByConsAddr(vote.Address)
             powerFraction == QuoTruncate(LegacyNewDec(vote.Power),
                                          LegacyNewDec(totalPreviousPower))
             reward == MulDecTruncate(feeMultiplier, powerFraction)
             st1 == burnOrAllocateTokensToValidator(st, validator, reward, fails[i])
             remaining == CoinsSub(st.remaining, reward)
             st2 == IF st1.abort # NoAbort THEN st1
                    ELSE IF IsAnyNegative(remaining)
                    THEN Abort(st1, "negative remaining")
                    ELSE [st1 EXCEPT !.remaining = remaining]
         IN AllocateVotes(st2, totalPreviousPower, bondedVotes, fails, feeMultiplier, i + 1)

\* AllocateTokens that gives the community pool only the taxed fees when the
\* previous power is zero
AllocateTokensRun_ZeroPowerTaxed(store, totalPreviousPower, bondedVotes, fails, transferFails) ==
    LET feesCollectedInt == store.feeCollector
        feesCollected == NewDecCoinsFromCoins(feesCollectedInt)
        entry == [f \in DOMAIN store \cup {"remaining", "abort", "results"} |->
                    CASE f = "remaining" -> feesCollected
                      [] f = "abort" -> NoAbort
                      [] f = "results" -> <<>>
                      [] OTHER -> store[f]]
        moved == SendCoinsFromModuleToModule(entry, feesCollectedInt)
        communityTax == params.CommunityTax
        voteMultiplier == LegacyOneDec - communityTax
        feeMultiplier == MulDecTruncate(feesCollected, voteMultiplier)
    IN IF transferFails THEN Abort(entry, "fee transfer")
       ELSE IF totalPreviousPower = 0
       THEN [moved EXCEPT !.communityPool = CoinsAdd(@, feeMultiplier)]
       ELSE LET done == AllocateVotes(moved, totalPreviousPower, bondedVotes,
                                      fails, feeMultiplier, 1)
            IN IF done.abort # NoAbort THEN done
               ELSE [done EXCEPT !.communityPool = CoinsAdd(@, done.remaining)]

\* Keeper.AllocateTokens, called on the store `store`: the store when the
\* call returns or panics, with the rewards it computed and what the bank
\* answered (results) and the panic, if any (abort)
AllocateTokensRun(store, totalPreviousPower, bondedVotes, fails, transferFails) ==
    LET feesCollectedInt == store.feeCollector
        feesCollected == NewDecCoinsFromCoins(feesCollectedInt)
        entry == [f \in DOMAIN store \cup {"remaining", "abort", "results"} |->
                    CASE f = "remaining" -> feesCollected
                      [] f = "abort" -> NoAbort
                      [] f = "results" -> <<>>
                      [] OTHER -> store[f]]
        moved == SendCoinsFromModuleToModule(entry, feesCollectedInt)
        communityTax == params.CommunityTax
        voteMultiplier == LegacyOneDec - communityTax
        feeMultiplier == MulDecTruncate(feesCollected, voteMultiplier)
    IN IF transferFails THEN Abort(entry, "fee transfer")
       ELSE IF totalPreviousPower = 0
       THEN [moved EXCEPT !.communityPool = CoinsAdd(@, feesCollected)]
       ELSE LET done == AllocateVotes(moved, totalPreviousPower, bondedVotes,
                                      fails, feeMultiplier, 1)
            IN IF done.abort # NoAbort THEN done
               ELSE [done EXCEPT !.communityPool = CoinsAdd(@, done.remaining)]

\* ------------------------------------------------------------------------
\* Actions
\* ------------------------------------------------------------------------

\* the store before any fee of the block: nothing allocated yet, or rewards
\* of earlier blocks still owed
PriorStores ==
    {[communityPool |-> Stake(150),
      rewards |-> [v \in Validators |-> IF v = "A" THEN StakeGas(250, 100) ELSE ZeroCoins],
      moduleBalance |-> StakeGas(4, 1)]}

NoCall ==
    [totalPreviousPower |-> 0, bondedVotes |-> <<>>, fails |-> <<>>,
     transferFails |-> FALSE, feesCollectedInt |-> ZeroCoins,
     abort |-> NoAbort, results |-> <<>>]

\* no staking operation yet.  A call of UnbondAllMatureValidators that comes
\* right after another one that returned is marked as a repeat and keeps the
\* trace of that one.
NoStakingCall ==
    [op |-> "none", addr |-> Nil, msg |-> Nil, amount |-> 0, fail |-> "none",
     key |-> <<0, 0>>, err |-> "nil", abort |-> NoAbort, trace |-> <<>>,
     repeat |-> FALSE, prev |-> <<>>]

\* the staking store after construction: no validator, no index entry, no
\* queue entry, no create message, block 0; the bank holds coins of both
\* denominations for the account of each operator and none for the pool
StakingInit ==
    /\ validatorRecords = [a \in Operators |-> NoValidator]
    /\ validatorsByConsAddr = [c \in ConsKeys |-> NoOperator]
    /\ validatorsByPowerIndex = {}
    /\ validatorQueue = <<>>
    /\ unbondingIndex = {}
    /\ unbondingId = 0
    /\ blockTime = 0
    /\ blockHeight = 0
    /\ skPc = "run"
    /\ skCall = NoStakingCall
    /\ accountBalance = [a \in Operators |-> StakeGas(MaxTokens, 1)]
    /\ notBondedPool = ZeroCoins
    /\ createValidatorMsgs = [a \in Operators |-> NoBytes]

Init ==
    /\ StakingInit
    /\ params \in ParamChoices
    /\ \E prior \in PriorStores :
          /\ moduleBalance = prior.moduleBalance
          /\ communityPool = prior.communityPool
          /\ currentRewards = prior.rewards
          /\ outstandingRewards = prior.rewards
    /\ feeCollector = ZeroCoins
    /\ beneficiaryBalance = ZeroCoins
    /\ burned = ZeroCoins
    /\ pc = "block"
    /\ pre = Store
    /\ call = NoCall

\* the fees of the block's transactions reach the fee collector account
DeductFees(fees) ==
    /\ pc = "block"
    /\ feeCollector = ZeroCoins
    /\ feeCollector' = CoinsAdd(feeCollector, fees)
    /\ UNCHANGED <<params, moduleBalance, beneficiaryBalance, burned, communityPool,
                   currentRewards, outstandingRewards, pc, pre, call>>
    /\ UNCHANGED <<stakingVars, evmVars>>

\* one call of Keeper.AllocateTokens, the whole of it
AllocateTokens(totalPreviousPower, bondedVotes, fails, transferFails) ==
    /\ pc = "block"
    /\ \E end \in {AllocateTokensRun(Store, totalPreviousPower, bondedVotes, fails, transferFails)} :
          /\ feeCollector' = end.feeCollector
          /\ moduleBalance' = end.moduleBalance
          /\ beneficiaryBalance' = end.beneficiaryBalance
          /\ burned' = end.burned
          /\ communityPool' = end.communityPool
          /\ currentRewards' = end.currentRewards
          /\ outstandingRewards' = end.outstandingRewards
          /\ pc' = IF end.abort = NoAbort THEN "returned" ELSE "aborted"
          /\ pre' = Store
          /\ call' = [totalPreviousPower |-> totalPreviousPower,
                      bondedVotes |-> bondedVotes,
                      fails |-> fails,
                      transferFails |-> transferFails,
                      feesCollectedInt |-> feeCollector,
                      abort |-> end.abort,
                      results |-> end.results]
    /\ UNCHANGED params
    /\ UNCHANGED <<stakingVars, evmVars>>

\* the block's call of AllocateTokens, with the previous power and votes the
\* consensus engine reports and the answers the bank gives
BeginBlocker ==
    /\ pc = "block"
    /\ \E totalPreviousPower \in TotalPowers, bondedVotes \in VoteLists :
          \* the bank is asked for a transfer or burn of a reward only when
          \* the fee transfer went through and the previous power is not zero
          \/ \E fails \in FailLists(Len(bondedVotes)) :
                /\ totalPreviousPower = 0 => fails = NoFails(Len(bondedVotes))
                /\ AllocateTokens(totalPreviousPower, bondedVotes, fails, FALSE)
          \/ AllocateTokens(totalPreviousPower, bondedVotes, NoFails(Len(bondedVotes)), TRUE)

Next ==
    \/ \E fees \in FeeChoices : DeductFees(fees)
    \/ BeginBlocker

Spec == Init /\ [][Next]_vars

\* the block ends and the next one begins: the distribution keeper is as
\* the call left it, ready for the call of the next BeginBlocker
EndBlock ==
    /\ pc = "returned"
    /\ blockHeight + 1 < MaxCalls
    /\ pc' = "block"
    /\ pre' = Store
    /\ call' = NoCall
    /\ blockHeight' = blockHeight + 1
    /\ blockTime' = blockTime + 1
    /\ UNCHANGED <<params, feeCollector, moduleBalance, beneficiaryBalance, burned,
                   communityPool, currentRewards, outstandingRewards>>
    /\ UNCHANGED <<validatorRecords, validatorsByConsAddr, validatorsByPowerIndex,
                   validatorQueue, unbondingIndex, unbondingId, skPc, skCall, evmVars>>

\* the parameters of the blocks whose fees are allocated one after the
\* other: the scenario's with and without a beneficiary and a burn list, and
\* a ratio of one with a beneficiary address that is not an account address
SequenceParams ==
    {[CommunityTax |-> 2,
      VoterRewards |-> [Ratio |-> 10, BeneficiaryAddr |-> NoAddr],
      BurnValidators |-> <<>>],
     [CommunityTax |-> 2,
      VoterRewards |-> [Ratio |-> 10, BeneficiaryAddr |-> AccString("T")],
      BurnValidators |-> <<ValString("A")>>],
     [CommunityTax |-> 0,
      VoterRewards |-> [Ratio |-> 100, BeneficiaryAddr |-> ValString("T")],
      BurnValidators |-> <<AccString("T"), AccString("B")>>]}

\* the previous power and the votes of these blocks: both validators with
\* all the power, one validator with all of it, and no power at all
SequenceVotes ==
    {[totalPreviousPower |-> 3,
      bondedVotes |-> <<[Address |-> "cA", Power |-> 1], [Address |-> "cB", Power |-> 2]>>],
     [totalPreviousPower |-> 100,
      bondedVotes |-> <<[Address |-> "cA", Power |-> 100]>>],
     [totalPreviousPower |-> 0,
      bondedVotes |-> <<[Address |-> "cB", Power |-> 2]>>]}

\* the call of AllocateTokens of one of these blocks, with the answers the
\* bank gives
SequenceBlocker ==
    /\ pc = "block"
    /\ \E in \in SequenceVotes :
          \/ \E fails \in FailLists(Len(in.bondedVotes)) :
                /\ in.totalPreviousPower = 0 => fails = NoFails(Len(in.bondedVotes))
                /\ AllocateTokens(in.totalPreviousPower, in.bondedVotes, fails, FALSE)
          \/ AllocateTokens(in.totalPreviousPower, in.bondedVotes,
                            NoFails(Len(in.bondedVotes)), TRUE)

SequenceNext ==
    \/ \E fees \in FeeChoices : DeductFees(fees)
    \/ SequenceBlocker
    \/ EndBlock

SequenceInit == Init /\ params \in SequenceParams

SequenceSpec == SequenceInit /\ [][SequenceNext]_vars

\* the distribution store while the staking keeper is looked at: the
\* scenario's parameters, nothing collected and no call
StakingSpecInit ==
    /\ StakingInit
    /\ params = [CommunityTax |-> 2,
                 VoterRewards |-> [Ratio |-> 10, BeneficiaryAddr |-> NoAddr],
                 BurnValidators |-> <<>>]
    /\ moduleBalance = ZeroCoins
    /\ communityPool = ZeroCoins
    /\ currentRewards = [v \in Validators |-> ZeroCoins]
    /\ outstandingRewards = [v \in Validators |-> ZeroCoins]
    /\ feeCollector = ZeroCoins
    /\ beneficiaryBalance = ZeroCoins
    /\ burned = ZeroCoins
    /\ pc = "block"
    /\ pre = Store
    /\ call = NoCall

TypeOK ==
    /\ params \in ParamChoices
    /\ pc \in {"block", "returned", "aborted"}
    /\ \A d \in Denoms : feeCollector[d] >= 0 /\ moduleBalance[d] >= 0 /\ burned[d] >= 0

\* ------------------------------------------------------------------------
\* What the properties speak about: the last call, its inputs and the
\* amounts the reward formula prescribes for them
\* ------------------------------------------------------------------------
Returned == pc = "returned"

Aborted == pc = "aborted"

VoteCount == Len(call.bondedVotes)

\* the call went through the loop over the votes to its end
Allocated == Returned /\ call.totalPreviousPower > 0

FeesDec == [d \in Denoms |-> call.feesCollectedInt[d] * Precision]

Delta(now, before) == [d \in Denoms |-> now[d] - before[d]]

RECURSIVE SumSeq(_)
SumSeq(seq) ==
    IF seq = <<>> THEN ZeroCoins
    ELSE [d \in Denoms |-> Head(seq)[d] + SumSeq(Tail(seq))[d]]

RECURSIVE SumPowers(_)
SumPowers(votes) ==
    IF votes = <<>> THEN 0 ELSE Head(votes).Power + SumPowers(Tail(votes))

\* sum of all validators' rewards of one kind plus the community pool
Accounted(st) ==
    [d \in Denoms |->
        st.communityPool[d]
        + SumSeq([i \in 1..2 |-> st.outstandingRewards[IF i = 1 THEN "A" ELSE "B"]])[d]]

VoteValidator(i) == ValidatorByConsAddr(call.bondedVotes[i].Address)

\* the operator address is in the burn list, in either of its two forms
InBurnList(v) ==
    \E k \in 1..Len(params.BurnValidators) :
        params.BurnValidators[k] \in {<<"valoper", v>>, <<"acc", v>>}

\* trunc(trunc(fees x (1 - communityTax)) x trunc(votePower / totalPreviousPower))
ExpectedReward(i) ==
    [d \in Denoms |->
        (((FeesDec[d] * (Precision - params.CommunityTax)) \div Precision)
         * ((call.bondedVotes[i].Power * Precision) \div call.totalPreviousPower))
        \div Precision]

\* trunc(reward x ratio)
ExpectedVoter(i) ==
    [d \in Denoms |-> (ExpectedReward(i)[d] * params.VoterRewards.Ratio) \div Precision]

ExpectedMiner(i) == [d \in Denoms |-> ExpectedReward(i)[d] - ExpectedVoter(i)[d]]

\* the whole units of a decimal amount, as integer coins
Whole(dcs) == [d \in Denoms |-> dcs[d] \div Precision]

\* the bank carried out the transfer or burn of the voter reward of vote i
VoterPaid(i) == call.results[i].voterOp # "error"

\* the miner reward of vote i reaches the validator's accumulators
Credited(i) ==
    VoteValidator(i) # Nil /\ ~InBurnList(VoteValidator(i)) /\ VoterPaid(i)

\* what a returning call takes out of the accounted sum: of every vote the
\* voter reward, and the miner reward too unless it is credited
Diverted ==
    IF call.totalPreviousPower = 0 THEN ZeroCoins
    ELSE SumSeq([i \in 1..VoteCount |->
                    IF Credited(i) THEN ExpectedVoter(i) ELSE ExpectedReward(i)])

\* ------------------------------------------------------------------------
\* C1
\* ------------------------------------------------------------------------

\* C1, as stated: after AllocateTokens the sum of all validators'
\* OutstandingRewards plus the community pool equals the sum before the call
\* plus the fees collected, exactly.
C1_ConservationExact ==
    Returned => Accounted(Store) = CoinsAdd(Accounted(pre), FeesDec)

\* C1, amended: after a returning AllocateTokens the sum of all validators'
\* OutstandingRewards plus the community pool equals the sum before the call
\* plus the fees collected minus what the call diverted: of every vote the
\* voter reward, and the miner reward as well when the validator is in the
\* burn list or the transfer or burn of the voter reward failed.
C1_ConservationLessDiverted ==
    Returned => Accounted(Store) = CoinsAdd(Accounted(pre), CoinsSub(FeesDec, Diverted))

\* a call that credited a validator while diverting a voter reward
C1_Witness ==
    /\ Allocated
    /\ \E i \in 1..VoteCount : Credited(i) /\ ExpectedVoter(i) # ZeroCoins
    /\ \E i \in 1..VoteCount : ~Credited(i) /\ ExpectedReward(i) # ZeroCoins

\* ------------------------------------------------------------------------
\* C2
\* ------------------------------------------------------------------------

\* C2: with totalPreviousPower = 0 the call adds all the collected fees to
\* the community pool, changes no validator's CurrentRewards or
\* OutstandingRewards, burns nothing and pays no beneficiary.
C2_ZeroPower ==
    (Returned /\ call.totalPreviousPower = 0) =>
        /\ Delta(communityPool, pre.communityPool) = FeesDec
        /\ currentRewards = pre.currentRewards
        /\ outstandingRewards = pre.outstandingRewards
        /\ burned = pre.burned
        /\ beneficiaryBalance = pre.beneficiaryBalance

\* a zero-power call with votes and fees, under a community tax
C2_Witness ==
    /\ Returned
    /\ call.totalPreviousPower = 0
    /\ VoteCount > 0
    /\ call.feesCollectedInt # ZeroCoins
    /\ params.CommunityTax > 0

\* ------------------------------------------------------------------------
\* C3
\* ------------------------------------------------------------------------

\* C3: every computed reward, voterReward and minerReward is >= 0, and when
\* a minerReward is negative the call aborts with no store mutation made:
\* the balances, the reward accumulators and the community pool are as
\* before the call.
C3_AbortBeforeMutation ==
    /\ \A i \in 1..Len(call.results) :
          /\ ~IsAnyNegative(call.results[i].reward)
          /\ ~IsAnyNegative(call.results[i].voterReward)
          /\ ~IsAnyNegative(call.results[i].minerReward)
    /\ call.abort = "negative miner reward" => (Aborted /\ Store = pre)

\* ------------------------------------------------------------------------
\* C4
\* ------------------------------------------------------------------------

\* C4: a call that returns leaves the fee collector with zero balance, its
\* whole prior balance moved to the distribution module account (where it
\* stays unless burned or sent to the beneficiary); when the transfer
\* fails the call aborts and neither the community pool nor any reward
\* accumulator is changed.
C4_FeeCustody ==
    /\ Returned =>
          /\ feeCollector = ZeroCoins
          /\ CoinsAdd(moduleBalance,
                      CoinsAdd(Delta(burned, pre.burned),
                               Delta(beneficiaryBalance, pre.beneficiaryBalance)))
             = CoinsAdd(pre.moduleBalance, pre.feeCollector)
    /\ call.transferFails =>
          /\ Aborted
          /\ communityPool = pre.communityPool
          /\ currentRewards = pre.currentRewards
          /\ outstandingRewards = pre.outstandingRewards

\* a returning call that found fees in the fee collector and votes to pay
C4_Witness ==
    /\ Allocated
    /\ pre.feeCollector # ZeroCoins
    /\ VoteCount > 0

\* ------------------------------------------------------------------------
\* C5
\* ------------------------------------------------------------------------

\* the bank burned the miner reward of vote i
MinerBurned(i) == call.results[i].minerOp = "burned"

NoBeneficiary == params.VoterRewards.BeneficiaryAddr = NoAddr

\* the whole units of the voter rewards the bank accepted
VoterPaidTotal ==
    SumSeq([i \in 1..VoteCount |->
               IF VoterPaid(i) THEN Whole(ExpectedVoter(i)) ELSE ZeroCoins])

\* the whole units of the miner rewards the bank burned
MinerBurnedTotal ==
    SumSeq([i \in 1..VoteCount |->
               IF MinerBurned(i) THEN Whole(ExpectedMiner(i)) ELSE ZeroCoins])

\* C5, as stated: the voter reward (reward x ratio) of every vote is
\* transferred to the beneficiary or, with no beneficiary, burned, and no
\* part of it stays in the distribution module account, also when the bank
\* returns an error.
C5_VoterRewardNeverRetained ==
    Allocated =>
        LET voterTotal == SumSeq([i \in 1..VoteCount |-> ExpectedVoter(i)])
            sent == Delta(beneficiaryBalance, pre.beneficiaryBalance)
            burnt == CoinsSub(Delta(burned, pre.burned), MinerBurnedTotal)
        IN IF NoBeneficiary
           THEN sent = ZeroCoins /\ NewDecCoinsFromCoins(burnt) = voterTotal
           ELSE burnt = ZeroCoins /\ NewDecCoinsFromCoins(sent) = voterTotal

\* C5, amended: for every vote whose voter reward the bank accepts, the
\* whole units of the voter reward are transferred to the beneficiary or,
\* with no beneficiary, burned; the fraction of a unit, and the whole voter
\* reward when the bank returns an error, stay in the distribution module
\* account.  The bank accepts unless it is told to fail.
C5_VoterRewardWholeUnits ==
    Allocated =>
        /\ \A i \in 1..VoteCount :
              /\ call.fails[i] = "voter" => ~VoterPaid(i)
              /\ (call.fails[i] # "voter"
                  /\ SumPowers(call.bondedVotes) <= call.totalPreviousPower)
                 => VoterPaid(i)
        /\ Delta(beneficiaryBalance, pre.beneficiaryBalance)
           = IF NoBeneficiary THEN ZeroCoins ELSE VoterPaidTotal
        /\ Delta(burned, pre.burned)
           = CoinsAdd(IF NoBeneficiary THEN VoterPaidTotal ELSE ZeroCoins,
                      MinerBurnedTotal)
        /\ moduleBalance
           = CoinsSub(CoinsAdd(pre.moduleBalance, call.feesCollectedInt),
                      CoinsAdd(VoterPaidTotal, MinerBurnedTotal))

\* one voter reward paid in whole units with a fraction left behind, and
\* one refused by the bank
C5_Witness ==
    /\ Allocated
    /\ \E i \in 1..VoteCount :
          /\ VoterPaid(i)
          /\ Whole(ExpectedVoter(i)) # ZeroCoins
          /\ NewDecCoinsFromCoins(Whole(ExpectedVoter(i))) # ExpectedVoter(i)
    /\ \E i \in 1..VoteCount : ~VoterPaid(i) /\ ExpectedVoter(i) # ZeroCoins

\* ------------------------------------------------------------------------
\* C6
\* ------------------------------------------------------------------------

\* C6, as stated: a voting validator in the burn list has its entire miner
\* reward burned and its OutstandingRewards and CurrentRewards unchanged; a
\* validator not in the list has the miner reward credited to both
\* accumulators and nothing of it burned.
C6_BurnListExact ==
    Allocated =>
        /\ \A i \in 1..VoteCount :
              LET v == VoteValidator(i)
                  credit == IF InBurnList(v) THEN ZeroCoins ELSE ExpectedMiner(i)
              IN v # Nil =>
                    /\ outstandingRewards[v] = CoinsAdd(pre.outstandingRewards[v], credit)
                    /\ currentRewards[v] = CoinsAdd(pre.currentRewards[v], credit)
        /\ NewDecCoinsFromCoins(
              CoinsSub(Delta(burned, pre.burned),
                       IF NoBeneficiary THEN VoterPaidTotal ELSE ZeroCoins))
           = SumSeq([i \in 1..VoteCount |->
                        IF VoteValidator(i) # Nil /\ InBurnList(VoteValidator(i))
                        THEN ExpectedMiner(i) ELSE ZeroCoins])

\* C6, amended: a voting validator in the burn list (in either address form)
\* has its OutstandingRewards and CurrentRewards unchanged, and the whole
\* units of its miner reward are burned when the bank accepted the voter
\* reward and accepts this burn (otherwise nothing of it is burned); a
\* validator not in the list has the miner reward credited to both
\* accumulators and nothing of it burned when the bank accepted the voter
\* reward, and is credited nothing when the bank refused it.
C6_BurnListWholeUnits ==
    Allocated =>
        /\ \A i \in 1..VoteCount :
              LET v == VoteValidator(i)
                  credit == IF ~InBurnList(v) /\ VoterPaid(i)
                            THEN ExpectedMiner(i) ELSE ZeroCoins
              IN /\ v # Nil =>
                      /\ outstandingRewards[v] = CoinsAdd(pre.outstandingRewards[v], credit)
                      /\ currentRewards[v] = CoinsAdd(pre.currentRewards[v], credit)
                 /\ MinerBurned(i) =>
                      v # Nil /\ InBurnList(v) /\ VoterPaid(i) /\ call.fails[i] # "miner"
                 /\ (v # Nil /\ InBurnList(v) /\ VoterPaid(i) /\ call.fails[i] # "miner"
                     /\ SumPowers(call.bondedVotes) <= call.totalPreviousPower)
                    => MinerBurned(i)
        /\ CoinsSub(Delta(burned, pre.burned),
                    IF NoBeneficiary THEN VoterPaidTotal ELSE ZeroCoins)
           = MinerBurnedTotal

\* validator B, listed by its account address, has a miner reward with a
\* fraction burned, while validator A is credited
C6_Witness ==
    /\ Allocated
    /\ <<"acc", "B">> \in {params.BurnValidators[k] : k \in 1..Len(params.BurnValidators)}
    /\ \E i \in 1..VoteCount :
          /\ VoteValidator(i) = "B"
          /\ MinerBurned(i)
          /\ Whole(ExpectedMiner(i)) # ZeroCoins
          /\ NewDecCoinsFromCoins(Whole(ExpectedMiner(i))) # ExpectedMiner(i)
    /\ \E i \in 1..VoteCount :
          Credited(i) /\ ExpectedMiner(i) # ZeroCoins

\* ------------------------------------------------------------------------
\* C7
\* ------------------------------------------------------------------------

\* the rewards the call computed for vote i are those of the formula
FormulaFollowed(i) ==
    /\ call.results[i].reward = ExpectedReward(i)
    /\ call.results[i].voterReward = ExpectedVoter(i)
    /\ call.results[i].minerReward = ExpectedMiner(i)

\* one validator of power 100 out of 100, fees 1000, tax 0.02, ratio 0.10,
\* no beneficiary, no burn list, no bank error
ScenarioCall ==
    /\ Allocated
    /\ params = [CommunityTax |-> 2,
                 VoterRewards |-> [Ratio |-> 10, BeneficiaryAddr |-> NoAddr],
                 BurnValidators |-> <<>>]
    /\ call.feesCollectedInt = Stake(1000)
    /\ call.totalPreviousPower = 100
    /\ call.bondedVotes = <<[Address |-> "cA", Power |-> 100]>>
    /\ call.fails = NoFails(1)

\* 98 burned, 882 credited to A's outstanding rewards, 20 to the community pool
ScenarioOutcome ==
    /\ Delta(burned, pre.burned) = Stake(98)
    /\ Delta(outstandingRewards["A"], pre.outstandingRewards["A"]) = Stake(882 * Precision)
    /\ Delta(outstandingRewards["B"], pre.outstandingRewards["B"]) = ZeroCoins
    /\ Delta(communityPool, pre.communityPool) = Stake(20 * Precision)

\* C7, as stated: for every vote, reward = trunc(trunc(fees x (1 - tax)) x
\* trunc(power / total)), voterReward = trunc(reward x ratio), minerReward =
\* reward - voterReward, and a validator not in the burn list has its
\* OutstandingRewards increased by exactly minerReward; the scenario yields
\* 98 burned, 882 credited and 20 to the community pool.
C7_RewardFormulaAlwaysCredited ==
    /\ Allocated =>
          \A i \in 1..VoteCount :
             /\ FormulaFollowed(i)
             /\ (VoteValidator(i) # Nil /\ ~InBurnList(VoteValidator(i))) =>
                   Delta(outstandingRewards[VoteValidator(i)],
                         pre.outstandingRewards[VoteValidator(i)]) = ExpectedMiner(i)
    /\ ScenarioCall => ScenarioOutcome

\* C7, amended: the rewards follow the formula for every vote, and a
\* validator not in the burn list has its OutstandingRewards increased by
\* exactly minerReward when the bank accepted the transfer or burn of the
\* voter reward (by nothing when the bank refused it); the scenario yields
\* 98 burned, 882 credited and 20 to the community pool.
C7_RewardFormula ==
    /\ Allocated =>
          \A i \in 1..VoteCount :
             /\ FormulaFollowed(i)
             /\ (VoteValidator(i) # Nil /\ ~InBurnList(VoteValidator(i))) =>
                   Delta(outstandingRewards[VoteValidator(i)],
                         pre.outstandingRewards[VoteValidator(i)])
                   = IF VoterPaid(i) THEN ExpectedMiner(i) ELSE ZeroCoins
    /\ ScenarioCall => ScenarioOutcome

\* the scenario has been run
C7_Witness == ScenarioCall

\* ------------------------------------------------------------------------
\* C8
\* ------------------------------------------------------------------------

RewardTotal == SumSeq([i \in 1..VoteCount |-> ExpectedReward(i)])

\* C8: with totalPreviousPower > 0 the community pool grows by exactly the
\* fees collected minus the sum of the rewards of the block; when the powers
\* of the votes sum to at most totalPreviousPower that amount is >= 0 in
\* every denomination and the call never aborts on a negative remainder.
C8_CommunityPoolRemainder ==
    /\ Allocated =>
          Delta(communityPool, pre.communityPool) = CoinsSub(FeesDec, RewardTotal)
    /\ (call.totalPreviousPower > 0
        /\ SumPowers(call.bondedVotes) <= call.totalPreviousPower) =>
          /\ call.abort # "negative remaining"
          /\ Returned => ~IsAnyNegative(Delta(communityPool, pre.communityPool))

\* two votes holding the whole previous power, no community tax: the pool
\* receives the truncation remainder only
C8_Witness ==
    /\ Allocated
    /\ VoteCount = 2
    /\ SumPowers(call.bondedVotes) = call.totalPreviousPower
    /\ params.CommunityTax = 0
    /\ Delta(communityPool, pre.communityPool) # ZeroCoins

\* ------------------------------------------------------------------------
\* C9
\* ------------------------------------------------------------------------

VotePermutations(n) ==
    {p \in [1..n -> 1..n] : \A i, j \in 1..n : i # j => p[i] # p[j]}

\* C9: from the same starting store and parameters, the call on any
\* permutation of the bondedVotes list (every vote meeting the same bank
\* answers) returns with the same community pool, the same CurrentRewards
\* and OutstandingRewards of every validator and the same totals burned and
\* sent to the beneficiary.
C9_OrderIndependence ==
    Returned =>
        \A p \in VotePermutations(VoteCount) :
            LET other == AllocateTokensRun(pre, call.totalPreviousPower,
                             [i \in 1..VoteCount |-> call.bondedVotes[p[i]]],
                             [i \in 1..VoteCount |-> call.fails[p[i]]],
                             FALSE)
            IN /\ other.abort = NoAbort
               /\ other.communityPool = communityPool
               /\ other.currentRewards = currentRewards
               /\ other.outstandingRewards = outstandingRewards
               /\ other.burned = burned
               /\ other.beneficiaryBalance = beneficiaryBalance

\* two votes with different rewards, both credited, under a voter ratio
C9_Witness ==
    /\ Allocated
    /\ VoteCount = 2
    /\ ExpectedReward(1) # ExpectedReward(2)
    /\ Credited(1) /\ Credited(2)
    /\ ExpectedVoter(1) # ZeroCoins
    /\ ExpectedMiner(2) # ZeroCoins

\* ------------------------------------------------------------------------
\* C10
\* ------------------------------------------------------------------------

BeneficiaryUnparseable ==
    ~NoBeneficiary /\ params.VoterRewards.BeneficiaryAddr[1] # "acc"

\* nothing but a secondary transfer stands in the way of the call
NoOtherFailure ==
    /\ pc # "block"
    /\ ~call.transferFails
    /\ call.totalPreviousPower > 0
    /\ SumPowers(call.bondedVotes) <= call.totalPreviousPower
    /\ params.VoterRewards.Ratio <= Precision
    /\ \A i \in 1..VoteCount : VoteValidator(i) # Nil

\* C10: an unparseable beneficiary address, or a failing beneficiary
\* transfer or burn for one vote, does not halt the call: every vote is
\* processed, the validators of the other votes are credited their miner
\* rewards, and the community pool is written.
C10_SecondaryFailuresDoNotHalt ==
    (NoOtherFailure /\ VoteCount > 0
     /\ (BeneficiaryUnparseable \/ \E i \in 1..VoteCount : call.fails[i] # "none")) =>
        /\ Returned
        /\ Len(call.results) = VoteCount
        /\ \A i \in 1..VoteCount :
              (call.fails[i] = "none" /\ ~InBurnList(VoteValidator(i))) =>
                 Delta(outstandingRewards[VoteValidator(i)],
                       pre.outstandingRewards[VoteValidator(i)]) = ExpectedMiner(i)
        /\ Delta(communityPool, pre.communityPool) = CoinsSub(FeesDec, RewardTotal)

\* ------------------------------------------------------------------------
\* C11
\* ------------------------------------------------------------------------

\* some vote of the call carries a consensus address with no validator
HasUnknownVoter == \E i \in 1..VoteCount : VoteValidator(i) = Nil

\* the first such vote
FirstUnknown ==
    CHOOSE i \in 1..VoteCount :
        VoteValidator(i) = Nil /\ \A j \in 1..(i - 1) : VoteValidator(j) # Nil

\* the call reaches the loop over the votes and nothing but the unknown
\* voter stands in its way
UnknownVoterCall ==
    /\ pc # "block"
    /\ ~call.transferFails
    /\ call.totalPreviousPower > 0
    /\ SumPowers(call.bondedVotes) <= call.totalPreviousPower
    /\ params.VoterRewards.Ratio <= Precision
    /\ ~BeneficiaryUnparseable
    /\ HasUnknownVoter

\* the whole units the votes before vote n had burned
BurnedBefore(n) ==
    SumSeq([i \in 1..(n - 1) |->
               CoinsAdd(IF NoBeneficiary /\ VoterPaid(i)
                        THEN Whole(ExpectedVoter(i)) ELSE ZeroCoins,
                        IF MinerBurned(i) THEN Whole(ExpectedMiner(i)) ELSE ZeroCoins)])

\* the whole units the votes before vote n had sent to the beneficiary
SentBefore(n) ==
    SumSeq([i \in 1..(n - 1) |->
               IF ~NoBeneficiary /\ VoterPaid(i)
               THEN Whole(ExpectedVoter(i)) ELSE ZeroCoins])

\* C11: when a vote's consensus address resolves to no validator the call
\* aborts, and nothing has been burned, sent to the beneficiary or credited
\* for that vote before the abort: what was burned and sent is what the
\* votes before it burned and sent.
C11_UnknownVoterAborts ==
    UnknownVoterCall =>
        /\ Aborted
        /\ Len(call.results) = FirstUnknown - 1
        /\ Delta(burned, pre.burned) = BurnedBefore(FirstUnknown)
        /\ Delta(beneficiaryBalance, pre.beneficiaryBalance) = SentBefore(FirstUnknown)

\* ========================================================================
\* The validator store of the staking keeper (x/staking/keeper/validator.go)
\* ========================================================================

\* sdk.ValAddressFromBech32: fails unless the string carries the validator
\* operator prefix; a string all in upper case decodes as the lower case one
ValAddressFromBech32(s) ==
    IF s # NoAddr /\ s[1] \in {"valoper", "VALOPER"} THEN [err |-> FALSE, bytes |-> s[2]]
    ELSE [err |-> TRUE, bytes |-> Nil]

\* the indexes of the store, the panic, if any, of the operation that is
\* running on it, and what a maturation did with each validator it matured
StakingStore ==
    [validatorRecords |-> validatorRecords,
     validatorsByConsAddr |-> validatorsByConsAddr,
     validatorsByPowerIndex |-> validatorsByPowerIndex,
     validatorQueue |-> validatorQueue,
     unbondingIndex |-> unbondingIndex,
     abort |-> NoAbort,
     trace |-> <<>>]

\* Keeper.GetValidator
GetValidator(st, addr) == st.validatorRecords[addr]

\* Keeper.GetValidatorByConsAddr
GetValidatorByConsAddr(st, consAddr) ==
    LET opAddr == st.validatorsByConsAddr[consAddr]
    IN IF opAddr = NoOperator THEN NoValidator ELSE GetValidator(st, opAddr)

\* Validator.GetOperator: the address bytes of the operator address string
GetOperator(validator) == ValAddressFromBech32(validator.OperatorAddress).bytes

\* Keeper.SetValidator
SetValidator(st, validator) ==
    [st EXCEPT !.validatorRecords[GetOperator(validator)] = validator]

\* Keeper.SetValidatorByConsAddr
SetValidatorByConsAddr(st, validator) ==
    [st EXCEPT !.validatorsByConsAddr[validator.ConsAddr] = GetOperator(validator)]

\* sdk.TokensToConsensusPower
TokensToConsensusPower(tokens) == tokens \div PowerReduction

\* types.GetValidatorsByPowerIndexKey: the power, then the operator address
GetValidatorsByPowerIndexKey(validator) ==
    <<TokensToConsensusPower(validator.Tokens), GetOperator(validator)>>

\* SetValidatorByPowerIndex that writes the entry of a jailed validator too
SetValidatorByPowerIndex_JailedToo(st, validator) ==
    [st EXCEPT !.validatorsByPowerIndex = @ \cup {GetValidatorsByPowerIndexKey(validator)}]

\* Keeper.SetValidatorByPowerIndex
SetValidatorByPowerIndex(st, validator) ==
    IF validator.Jailed THEN st
    ELSE [st EXCEPT !.validatorsByPowerIndex = @ \cup {GetValidatorsByPowerIndexKey(validator)}]

\* Keeper.DeleteValidatorByPowerIndex
DeleteValidatorByPowerIndex(st, validator) ==
    [st EXCEPT !.validatorsByPowerIndex = @ \ {GetValidatorsByPowerIndexKey(validator)}]

\* Keeper.SetNewValidatorByPowerIndex
SetNewValidatorByPowerIndex(st, validator) ==
    [st EXCEPT !.validatorsByPowerIndex = @ \cup {GetValidatorsByPowerIndexKey(validator)}]

\* Validator.AddTokensFromDel: shares are issued at the validator's shares
\* per token, one share per token when it has no shares
AddTokensFromDel(validator, amount) ==
    LET issuedShares == IF validator.DelegatorShares = 0 THEN LegacyNewDec(amount)
                        ELSE QuoInt(validator.DelegatorShares * amount, validator.Tokens)
    IN [validator EXCEPT !.Tokens = @ + amount,
                         !.DelegatorShares = @ + issuedShares]

\* Validator.RemoveDelShares: the last shares take all the tokens, other
\* shares their truncated part of them
RemoveDelShares(validator, delShares) ==
    LET remainingShares == validator.DelegatorShares - delShares
        issuedTokens == IF remainingShares = 0 THEN validator.Tokens
                        ELSE TruncateInt(QuoInt(delShares * validator.Tokens * Precision,
                                                validator.DelegatorShares))
    IN [validator EXCEPT !.Tokens = @ - issuedTokens,
                         !.DelegatorShares = remainingShares]

\* Validator.RemoveTokens
RemoveTokens(validator, tokens) == [validator EXCEPT !.Tokens = @ - tokens]

\* Keeper.AddValidatorTokensAndShares
AddValidatorTokensAndShares(st, validator, tokensToAdd) ==
    LET valOut == AddTokensFromDel(validator, tokensToAdd)
    IN SetValidatorByPowerIndex(
          SetValidator(DeleteValidatorByPowerIndex(st, validator), valOut), valOut)

\* Keeper.RemoveValidatorTokensAndShares
RemoveValidatorTokensAndShares(st, validator, sharesToRemove) ==
    LET valOut == RemoveDelShares(validator, sharesToRemove)
    IN SetValidatorByPowerIndex(
          SetValidator(DeleteValidatorByPowerIndex(st, validator), valOut), valOut)

\* Keeper.RemoveValidatorTokens
RemoveValidatorTokens(st, validator, tokensToRemove) ==
    LET valOut == RemoveTokens(validator, tokensToRemove)
    IN SetValidatorByPowerIndex(
          SetValidator(DeleteValidatorByPowerIndex(st, validator), valOut), valOut)

\* RemoveValidator without the guard on the status
RemoveValidator_NoStatusGuard(st, address) ==
    LET validator == GetValidator(st, address)
    IN IF validator = NoValidator THEN st
       ELSE IF validator.Tokens > 0
       THEN Abort(st, "attempting to remove a validator which still contains tokens")
       ELSE [st EXCEPT
                !.validatorRecords[address] = NoValidator,
                !.validatorsByConsAddr[validator.ConsAddr] = NoOperator,
                !.validatorsByPowerIndex = @ \ {GetValidatorsByPowerIndexKey(validator)}]

\* RemoveValidator that leaves the entry of the cons-addr index in place
RemoveValidator_KeepConsAddr(st, address) ==
    LET validator == GetValidator(st, address)
    IN IF validator = NoValidator THEN st
       ELSE IF validator.Status # "Unbonded"
       THEN Abort(st, "cannot call RemoveValidator on bonded or unbonding validators")
       ELSE IF validator.Tokens > 0
       THEN Abort(st, "attempting to remove a validator which still contains tokens")
       ELSE [st EXCEPT
                !.validatorRecords[address] = NoValidator,
                !.validatorsByPowerIndex = @ \ {GetValidatorsByPowerIndexKey(validator)}]

\* Keeper.RemoveValidator (the AfterValidatorRemoved hook is only logged)
RemoveValidator(st, address) ==
    LET validator == GetValidator(st, address)
    IN IF validator = NoValidator THEN st
       ELSE IF validator.Status # "Unbonded"
       THEN Abort(st, "cannot call RemoveValidator on bonded or unbonding validators")
       ELSE IF validator.Tokens > 0
       THEN Abort(st, "attempting to remove a validator which still contains tokens")
       ELSE [st EXCEPT
                !.validatorRecords[address] = NoValidator,
                !.validatorsByConsAddr[validator.ConsAddr] = NoOperator,
                !.validatorsByPowerIndex = @ \ {GetValidatorsByPowerIndexKey(validator)}]

\* ------------------------------------------------------------------------
\* The unbonding validator queue
\* ------------------------------------------------------------------------

\* Keeper.GetUnbondingValidators
GetUnbondingValidators(st, endTime, endHeight) ==
    IF <<endTime, endHeight>> \in DOMAIN st.validatorQueue
    THEN st.validatorQueue[<<endTime, endHeight>>]
    ELSE <<>>

\* Keeper.SetUnbondingValidatorsQueue
SetUnbondingValidatorsQueue(st, endTime, endHeight, addrs) ==
    LET queue == st.validatorQueue
    IN [st EXCEPT !.validatorQueue =
           [k \in DOMAIN queue \cup {<<endTime, endHeight>>} |->
               IF k = <<endTime, endHeight>> THEN addrs ELSE queue[k]]]

\* InsertUnbondingValidatorQueue that puts the address at the head of the list
InsertUnbondingValidatorQueue_Prepend(st, val) ==
    LET addrs == GetUnbondingValidators(st, val.UnbondingTime, val.UnbondingHeight)
    IN SetUnbondingValidatorsQueue(st, val.UnbondingTime, val.UnbondingHeight,
                                   <<val.OperatorAddress>> \o addrs)

\* Keeper.InsertUnbondingValidatorQueue
InsertUnbondingValidatorQueue(st, val) ==
    LET addrs == GetUnbondingValidators(st, val.UnbondingTime, val.UnbondingHeight)
    IN SetUnbondingValidatorsQueue(st, val.UnbondingTime, val.UnbondingHeight,
                                   Append(addrs, val.OperatorAddress))

\* Keeper.DeleteValidatorQueueTimeSlice
DeleteValidatorQueueTimeSlice(st, endTime, endHeight) ==
    LET queue == st.validatorQueue
    IN [st EXCEPT !.validatorQueue =
           [k \in DOMAIN queue \ {<<endTime, endHeight>>} |-> queue[k]]]

\* the loop of DeleteValidatorQueue: the stored addresses other than the
\* deleted one, parsed to bytes and written as strings again
RECURSIVE newAddrsOf(_, _)
newAddrsOf(addrs, deletingAddr) ==
    IF addrs = <<>> THEN <<>>
    ELSE LET storedAddr == ValAddressFromBech32(Head(addrs))
             rest == newAddrsOf(Tail(addrs), deletingAddr)
         IN IF storedAddr.bytes = deletingAddr THEN rest
            ELSE <<ValString(storedAddr.bytes)>> \o rest

\* DeleteValidatorQueue that never deletes the key, writing the empty list
DeleteValidatorQueue_KeepEmpty(st, val) ==
    LET addrs == GetUnbondingValidators(st, val.UnbondingTime, val.UnbondingHeight)
        deletingAddr == ValAddressFromBech32(val.OperatorAddress)
    IN IF deletingAddr.err
          \/ \E i \in 1..Len(addrs) : ValAddressFromBech32(addrs[i]).err
       THEN Abort(st, "decoding bech32 failed")
       ELSE SetUnbondingValidatorsQueue(st, val.UnbondingTime, val.UnbondingHeight,
                                        newAddrsOf(addrs, deletingAddr.bytes))

\* DeleteValidatorQueue that leaves the address in its entry
DeleteValidatorQueue_KeepAddress(st, val) ==
    LET addrs == GetUnbondingValidators(st, val.UnbondingTime, val.UnbondingHeight)
        deletingAddr == ValAddressFromBech32(val.OperatorAddress)
    IN IF deletingAddr.err
          \/ \E i \in 1..Len(addrs) : ValAddressFromBech32(addrs[i]).err
       THEN Abort(st, "decoding bech32 failed")
       ELSE st

\* Keeper.DeleteValidatorQueue
DeleteValidatorQueue(st, val) ==
    LET addrs == GetUnbondingValidators(st, val.UnbondingTime, val.UnbondingHeight)
        deletingAddr == ValAddressFromBech32(val.OperatorAddress)
    IN IF deletingAddr.err
          \/ \E i \in 1..Len(addrs) : ValAddressFromBech32(addrs[i]).err
       THEN Abort(st, "decoding bech32 failed")
       ELSE LET newAddrs == newAddrsOf(addrs, deletingAddr.bytes)
            IN IF Len(newAddrs) = 0
               THEN DeleteValidatorQueueTimeSlice(st, val.UnbondingTime, val.UnbondingHeight)
               ELSE SetUnbondingValidatorsQueue(st, val.UnbondingTime,
                                                val.UnbondingHeight, newAddrs)

\* the byte order of types.GetValidatorQueueKey: the time first, then the height
QueueKeyLess(k1, k2) == k1[1] < k2[1] \/ (k1[1] = k2[1] /\ k1[2] < k2[2])

RECURSIVE SortedKeys(_)
SortedKeys(keys) ==
    IF keys = {} THEN <<>>
    ELSE LET first == CHOOSE k \in keys : \A o \in keys \ {k} : QueueKeyLess(k, o)
         IN <<first>> \o SortedKeys(keys \ {first})

\* Keeper.ValidatorQueueIterator: the entries from the first key of the queue
\* up to and including the key of (endTime, endHeight), in key order, as the
\* store holds them when the iterator is made
ValidatorQueueIterator(st, endTime, endHeight) ==
    LET end == <<endTime, endHeight>>
        inRange == {k \in DOMAIN st.validatorQueue : k = end \/ QueueKeyLess(k, end)}
    IN [i \in 1..Cardinality(inRange) |->
           [key |-> SortedKeys(inRange)[i],
            value |-> st.validatorQueue[SortedKeys(inRange)[i]]]]

\* ------------------------------------------------------------------------
\* Maturation of the unbonding queue
\* ------------------------------------------------------------------------

\* Keeper.DeleteUnbondingIndex, for every id of a list
DeleteUnbondingIndexes(st, ids) ==
    [st EXCEPT !.unbondingIndex = @ \ {ids[i] : i \in 1..Len(ids)}]

\* Keeper.UnbondingToUnbonded: the record with status Unbonded, stored
UnbondingToUnbonded(st, val) ==
    SetValidator(st, [val EXCEPT !.Status = "Unbonded"])

\* the record of a maturation in the trace of the call
Matured(st, val) ==
    [st EXCEPT !.trace = Append(@, [addr |-> GetOperator(val),
                                     key |-> <<val.UnbondingTime, val.UnbondingHeight>>,
                                     removed |-> val.DelegatorShares = 0])]

\* the body of the loop over the addresses of a mature entry that matures a
\* validator whatever its hold count
unbondMatureValidator_IgnoreHold(st, valAddr) ==
    LET addr == ValAddressFromBech32(valAddr)
        val == GetValidator(st, addr.bytes)
    IN IF addr.err THEN Abort(st, "decoding bech32 failed")
       ELSE IF val = NoValidator
       THEN Abort(st, "validator in the unbonding queue was not found")
       ELSE IF val.Status # "Unbonding"
       THEN Abort(st, "unexpected validator in unbonding queue; status was not unbonding")
       ELSE LET st1 == DeleteUnbondingIndexes(st, val.UnbondingIds)
                unbonded == [val EXCEPT !.Status = "Unbonded"]
                st2 == UnbondingToUnbonded(st1, val)
                st3 == IF unbonded.DelegatorShares = 0
                       THEN RemoveValidator(st2, GetOperator(unbonded))
                       ELSE st2
            IN IF st3.abort # NoAbort THEN st3
               ELSE Matured(DeleteValidatorQueue(st3, unbonded), unbonded)

\* the body of the loop without the check of the status of the record
unbondMatureValidator_NoStatusCheck(st, valAddr) ==
    LET addr == ValAddressFromBech32(valAddr)
        val == GetValidator(st, addr.bytes)
    IN IF addr.err THEN Abort(st, "decoding bech32 failed")
       ELSE IF val = NoValidator
       THEN Abort(st, "validator in the unbonding queue was not found")
       ELSE IF val.UnbondingOnHoldRefCount = 0
       THEN LET st1 == DeleteUnbondingIndexes(st, val.UnbondingIds)
                unbonded == [val EXCEPT !.Status = "Unbonded"]
                st2 == UnbondingToUnbonded(st1, val)
                st3 == IF unbonded.DelegatorShares = 0
                       THEN RemoveValidator(st2, GetOperator(unbonded))
                       ELSE st2
                local == IF unbonded.DelegatorShares = 0 THEN unbonded
                         ELSE [unbonded EXCEPT !.UnbondingIds = <<>>]
            IN IF st3.abort # NoAbort THEN st3
               ELSE Matured(DeleteValidatorQueue(st3, local), local)
       ELSE st

\* the body of the loop of UnbondAllMatureValidators over the addresses of a
\* mature entry.  The unbonding ids are removed from the local copy of the
\* record only, which goes to DeleteValidatorQueue and is not stored.
unbondMatureValidator(st, valAddr) ==
    LET addr == ValAddressFromBech32(valAddr)
        val == GetValidator(st, addr.bytes)
    IN IF addr.err THEN Abort(st, "decoding bech32 failed")
       ELSE IF val = NoValidator
       THEN Abort(st, "validator in the unbonding queue was not found")
       ELSE IF val.Status # "Unbonding"
       THEN Abort(st, "unexpected validator in unbonding queue; status was not unbonding")
       ELSE IF val.UnbondingOnHoldRefCount = 0
       THEN LET st1 == DeleteUnbondingIndexes(st, val.UnbondingIds)
                unbonded == [val EXCEPT !.Status = "Unbonded"]
                st2 == UnbondingToUnbonded(st1, val)
                st3 == IF unbonded.DelegatorShares = 0
                       THEN RemoveValidator(st2, GetOperator(unbonded))
                       ELSE st2
                local == IF unbonded.DelegatorShares = 0 THEN unbonded
                         ELSE [unbonded EXCEPT !.UnbondingIds = <<>>]
            IN IF st3.abort # NoAbort THEN st3
               ELSE Matured(DeleteValidatorQueue(st3, local), local)
       ELSE st

RECURSIVE unbondMatureValidators(_, _)
unbondMatureValidators(st, addrs) ==
    IF addrs = <<>> \/ st.abort # NoAbort THEN st
    ELSE unbondMatureValidators(unbondMatureValidator(st, Head(addrs)), Tail(addrs))

\* the check on a key that lets every iterated entry through
IsMature_Always(keyTime, keyHeight, time, height) == TRUE

\* the check on a key that wants the time and the height to have passed
IsMature_Strict(keyTime, keyHeight, time, height) ==
    keyHeight < height /\ keyTime < time

\* the explicit check of UnbondAllMatureValidators on an iterated key
IsMature(keyTime, keyHeight, time, height) ==
    keyHeight <= height /\ keyTime <= time

RECURSIVE unbondEntries(_, _, _, _)
unbondEntries(st, entries, time, height) ==
    IF entries = <<>> \/ st.abort # NoAbort THEN st
    ELSE LET entry == Head(entries)
             st1 == IF IsMature(entry.key[1], entry.key[2], time, height)
                    THEN unbondMatureValidators(st, entry.value)
                    ELSE st
         IN unbondEntries(st1, Tail(entries), time, height)

\* Keeper.UnbondAllMatureValidators at block (time, height)
UnbondAllMatureValidatorsRun(st, time, height) ==
    unbondEntries(st, ValidatorQueueIterator(st, time, height), time, height)

\* ------------------------------------------------------------------------
\* Creation of a validator
\* ------------------------------------------------------------------------

\* types.NewValidator: an unbonded validator with no tokens and no shares
NewValidator(valAddr, pk) ==
    [found |-> TRUE,
     OperatorAddress |-> ValString(valAddr),
     ConsAddr |-> pk,
     Jailed |-> FALSE,
     Status |-> "Unbonded",
     Tokens |-> 0,
     DelegatorShares |-> 0,
     Commission |-> [Rate |-> 0, MaxRate |-> 0],
     UnbondingHeight |-> 0,
     UnbondingTime |-> 0,
     UnbondingOnHoldRefCount |-> 0,
     UnbondingIds |-> <<>>]

\* Commission.Validate, as SetInitialCommission calls it
CommissionInvalid(commission) ==
    commission.Rate > commission.MaxRate \/ commission.MaxRate > Precision

\* Keeper.Delegate from the delegator's account: the tokens reach the
\* validator through AddValidatorTokensAndShares
Delegate(st, validator, bondAmt) == AddValidatorTokensAndShares(st, validator, bondAmt)

\* the outcome of a create call: the store, the error returned and the
\* steps taken in their order
Outcome(st, err, trace) == [store |-> st, err |-> err, trace |-> trace]

NoError == "nil"

\* the checks of createNativeValidator that come before its first write, in
\* their order, without the check of the consensus address
createNativeValidatorCheck_NoPubKeyCheck(st, msg) ==
    LET valAddr == ValAddressFromBech32(msg.ValidatorAddress)
    IN IF valAddr.err THEN "decoding bech32 failed"
       ELSE IF msg.Commission.Rate < MinCommissionRate THEN "ErrCommissionLTMinRate"
       ELSE IF GetValidator(st, valAddr.bytes) # NoValidator THEN "ErrValidatorOwnerExists"
       ELSE IF msg.Value.Denom # BondDenom THEN "ErrInvalidRequest"
       ELSE IF CommissionInvalid(msg.Commission) THEN "invalid commission"
       ELSE IF AccAddressFromBech32(msg.DelegatorAddress).err THEN "decoding bech32 failed"
       ELSE NoError

\* the checks of createNativeValidator that come before its first write, in
\* their order: the error returned, or nil
createNativeValidatorCheck(st, msg) ==
    LET valAddr == ValAddressFromBech32(msg.ValidatorAddress)
    IN IF valAddr.err THEN "decoding bech32 failed"
       ELSE IF msg.Commission.Rate < MinCommissionRate THEN "ErrCommissionLTMinRate"
       ELSE IF GetValidator(st, valAddr.bytes) # NoValidator THEN "ErrValidatorOwnerExists"
       ELSE IF GetValidatorByConsAddr(st, msg.Pubkey) # NoValidator
       THEN "ErrValidatorPubKeyExists"
       ELSE IF msg.Value.Denom # BondDenom THEN "ErrInvalidRequest"
       ELSE IF CommissionInvalid(msg.Commission) THEN "invalid commission"
       ELSE IF AccAddressFromBech32(msg.DelegatorAddress).err THEN "decoding bech32 failed"
       ELSE NoError

\* createNativeValidator that emits the create_validator event before the
\* delegation
createNativeValidatorRun_EventFirst(st, msg, fail) ==
    LET err == createNativeValidatorCheck(st, msg)
        valAddr == ValAddressFromBech32(msg.ValidatorAddress)
        validator == [NewValidator(valAddr.bytes, msg.Pubkey) EXCEPT
                         !.Commission = msg.Commission]
        written == SetNewValidatorByPowerIndex(
                       SetValidatorByConsAddr(SetValidator(st, validator), validator),
                       validator)
        writes == <<"SetValidator", "SetValidatorByConsAddr", "SetNewValidatorByPowerIndex">>
    IN IF err # NoError THEN Outcome(st, err, <<>>)
       ELSE IF fail = "hook"
       THEN Outcome(written, "AfterValidatorCreated", Append(writes, "AfterValidatorCreated"))
       ELSE IF fail = "delegate"
       THEN Outcome(written, "Delegate",
                    writes \o <<"AfterValidatorCreated", "create_validator", "Delegate">>)
       ELSE Outcome(Delegate(written, validator, msg.Value.Amount), NoError,
                    writes \o <<"AfterValidatorCreated", "create_validator", "Delegate">>)

\* Keeper.createNativeValidator; fail names the collaborator, if any, that
\* returns an error: the after-creation hook or the delegation
createNativeValidatorRun(st, msg, fail) ==
    LET err == createNativeValidatorCheck(st, msg)
        valAddr == ValAddressFromBech32(msg.ValidatorAddress)
        validator == [NewValidator(valAddr.bytes, msg.Pubkey) EXCEPT
                         !.Commission = msg.Commission]
        written == SetNewValidatorByPowerIndex(
                       SetValidatorByConsAddr(SetValidator(st, validator), validator),
                       validator)
        writes == <<"SetValidator", "SetValidatorByConsAddr", "SetNewValidatorByPowerIndex">>
    IN IF err # NoError THEN Outcome(st, err, <<>>)
       ELSE IF fail = "hook"
       THEN Outcome(written, "AfterValidatorCreated", Append(writes, "AfterValidatorCreated"))
       ELSE IF fail = "delegate"
       THEN Outcome(written, "Delegate",
                    writes \o <<"AfterValidatorCreated", "Delegate">>)
       ELSE Outcome(Delegate(written, validator, msg.Value.Amount), NoError,
                    writes \o <<"AfterValidatorCreated", "Delegate", "create_validator">>)

\* ------------------------------------------------------------------------
\* Creation of a validator through the EVM callbacks
\* ------------------------------------------------------------------------

\* the staking store, the balances the bank keeps and the create messages
EvmStore ==
    [store |-> StakingStore,
     accountBalance |-> accountBalance,
     notBondedPool |-> notBondedPool,
     createValidatorMsgs |-> createValidatorMsgs]

\* sdk.NewCoins(sdk.NewCoin(denom, amount))
NewCoins(denom, amount) == [d \in Denoms |-> IF d = denom THEN amount ELSE 0]

\* bankKeeper.DelegateCoinsFromAccountToModule to the not bonded pool: all
\* the coins move, or none and an error when the account holds too little
DelegateCoinsFromAccountToModule(es, account, coins) ==
    IF \E d \in Denoms : es.accountBalance[account][d] < coins[d]
    THEN [es |-> es, err |-> TRUE]
    ELSE [es |-> [es EXCEPT !.accountBalance[account] = CoinsSub(@, coins),
                            !.notBondedPool = CoinsAdd(@, coins)],
          err |-> FALSE]

\* bankKeeper.UndelegateCoinsFromModuleToAccount from the not bonded pool:
\* all the coins move, or none and an error when the pool holds too little
UndelegateCoinsFromModuleToAccount(es, account, coins) ==
    IF \E d \in Denoms : es.notBondedPool[d] < coins[d]
    THEN [es |-> es, err |-> TRUE]
    ELSE [es |-> [es EXCEPT !.notBondedPool = CoinsSub(@, coins),
                            !.accountBalance[account] = CoinsAdd(@, coins)],
          err |-> FALSE]

\* the message the codec decodes from no bytes: every field is empty
EmptyMsg ==
    [ValidatorAddress |-> NoAddr,
     DelegatorAddress |-> NoAddr,
     Pubkey |-> Nil,
     Commission |-> [Rate |-> 0, MaxRate |-> 0],
     Value |-> [Denom |-> Nil, Amount |-> 0]]

\* Keeper.GetCreateValidatorMsgByValAddr: the message stored under the bytes
\* of the address.  The Get of a key that is not set gives no bytes, which
\* Unmarshal decodes without an error.
GetCreateValidatorMsgByValAddr(es, valAddr) ==
    IF es.createValidatorMsgs[valAddr] = NoBytes THEN EmptyMsg
    ELSE es.createValidatorMsgs[valAddr]

\* Keeper.SetCreateValidatorMsgByValAddr
SetCreateValidatorMsgByValAddr(es, valAddr, msg) ==
    [es EXCEPT !.createValidatorMsgs[valAddr] = msg]

\* CreateEvmStaking that stores the message before it escrows the coins
CreateEvmStakingRun_StoreFirst(es, msg, callback) ==
    LET delegatorAddress == AccAddressFromBech32(msg.DelegatorAddress)
        delCoins == NewCoins(msg.Value.Denom, msg.Value.Amount)
        valAddr == ValAddressFromBech32(msg.ValidatorAddress)
        stored == SetCreateValidatorMsgByValAddr(es, valAddr.bytes, msg)
        escrowed == DelegateCoinsFromAccountToModule(stored, delegatorAddress.bytes, delCoins)
        check == <<"GovEventCheckValidatorStatus">>
        store == Append(check, "SetCreateValidatorMsgByValAddr")
        escrow == Append(store, "DelegateCoinsFromAccountToModule")
        set == Append(escrow, "GovEventSetValidatorStatus")
    IN IF callback = "unset" THEN Outcome(es, "evm callback not set", <<>>)
       ELSE IF callback = "check" THEN Outcome(es, "check validator status", check)
       ELSE IF delegatorAddress.err THEN Outcome(es, "decoding bech32 failed", check)
       ELSE IF valAddr.err THEN Outcome(es, "decoding bech32 failed", check)
       ELSE IF escrowed.err THEN Outcome(stored, "insufficient funds", store)
       ELSE IF callback = "set" THEN Outcome(escrowed.es, "set validator status", set)
       ELSE Outcome(escrowed.es, NoError, Append(set, "validator_delegate"))

\* Keeper.CreateEvmStaking, with the steps it took in their order as the
\* trace of its outcome.  callback is "unset" when the keeper has no
\* callback, "check" or "set" when the callback returns an error for the
\* event of that type, "none" when it returns nil for both.
CreateEvmStakingRun(es, msg, callback) ==
    LET delegatorAddress == AccAddressFromBech32(msg.DelegatorAddress)
        delCoins == NewCoins(msg.Value.Denom, msg.Value.Amount)
        escrowed == DelegateCoinsFromAccountToModule(es, delegatorAddress.bytes, delCoins)
        valAddr == ValAddressFromBech32(msg.ValidatorAddress)
        stored == SetCreateValidatorMsgByValAddr(escrowed.es, valAddr.bytes, msg)
        check == <<"GovEventCheckValidatorStatus">>
        escrow == Append(check, "DelegateCoinsFromAccountToModule")
        store == Append(escrow, "SetCreateValidatorMsgByValAddr")
        set == Append(store, "GovEventSetValidatorStatus")
    IN IF callback = "unset" THEN Outcome(es, "evm callback not set", <<>>)
       ELSE IF callback = "check" THEN Outcome(es, "check validator status", check)
       ELSE IF delegatorAddress.err THEN Outcome(es, "decoding bech32 failed", check)
       ELSE IF escrowed.err THEN Outcome(es, "insufficient funds", check)
       ELSE IF valAddr.err THEN Outcome(escrowed.es, "decoding bech32 failed", escrow)
       ELSE IF callback = "set" THEN Outcome(stored, "set validator status", set)
       ELSE Outcome(stored, NoError, Append(set, "validator_delegate"))

\* createNativeValidator as CreateEvmValidator calls it, with the coins that
\* Keeper.Delegate takes from the account of the delegator for the not
\* bonded pool when the delegation goes through
createNativeValidatorWithBank(es, msg, fail) ==
    LET out == createNativeValidatorRun(es.store, msg, fail)
        delCoins == NewCoins(msg.Value.Denom, msg.Value.Amount)
        delegated == DelegateCoinsFromAccountToModule(
                         es, AccAddressFromBech32(msg.DelegatorAddress).bytes, delCoins)
    IN IF out.err = NoError
       THEN Outcome([delegated.es EXCEPT !.store = out.store], NoError, out.trace)
       ELSE Outcome([es EXCEPT !.store = out.store], out.err, out.trace)

\* Keeper.CreateEvmValidator; fail names the collaborator of
\* createNativeValidator, if any, that returns an error
CreateEvmValidatorRun(es, valAddr, fail) ==
    LET msg == GetCreateValidatorMsgByValAddr(es, valAddr)
        delegatorAddress == AccAddressFromBech32(msg.DelegatorAddress)
        delCoins == NewCoins(msg.Value.Denom, msg.Value.Amount)
        released == UndelegateCoinsFromModuleToAccount(es, delegatorAddress.bytes, delCoins)
        native == createNativeValidatorWithBank(released.es, msg, fail)
    IN IF delegatorAddress.err THEN Outcome(es, "decoding bech32 failed", <<>>)
       ELSE IF released.err THEN Outcome(es, "insufficient funds", <<>>)
       ELSE Outcome(native.store, native.err,
                    <<"UndelegateCoinsFromModuleToAccount">> \o native.trace)

\* ------------------------------------------------------------------------
\* Lifecycle operations of other files of the keeper that write the store
\* ------------------------------------------------------------------------

\* bondValidator: the status becomes Bonded and a scheduled unbonding is
\* cancelled
bondValidator(st, validator) ==
    LET bonded == [validator EXCEPT !.Status = "Bonded"]
    IN DeleteValidatorQueue(
          SetValidatorByPowerIndex(
             SetValidator(DeleteValidatorByPowerIndex(st, validator), bonded), bonded),
          bonded)

\* beginUnbondingValidator: the status becomes Unbonding, the completion time
\* and height and a new unbonding id are recorded and the operator address
\* is appended to the queue entry of that time and height
beginUnbondingValidator(st, validator, completionTime, completionHeight, id) ==
    LET unbonding == [validator EXCEPT !.Status = "Unbonding",
                                       !.UnbondingTime = completionTime,
                                       !.UnbondingHeight = completionHeight,
                                       !.UnbondingIds = Append(@, id)]
        st1 == SetValidatorByPowerIndex(
                  SetValidator(DeleteValidatorByPowerIndex(st, validator), unbonding),
                  unbonding)
    IN InsertUnbondingValidatorQueue([st1 EXCEPT !.unbondingIndex = @ \cup {id}], unbonding)

\* jailValidator: the record is marked and its power index entry removed
jailValidator(st, validator) ==
    LET jailed == [validator EXCEPT !.Jailed = TRUE]
    IN DeleteValidatorByPowerIndex(SetValidator(st, jailed), jailed)

\* unjailValidator: the mark is removed and the power index entry written
unjailValidator(st, validator) ==
    LET unjailed == [validator EXCEPT !.Jailed = FALSE]
    IN SetValidatorByPowerIndex(SetValidator(st, unjailed), unjailed)

\* PutUnbondingOnHold on the unbonding of a validator
PutUnbondingOnHold(st, validator) ==
    SetValidator(st, [validator EXCEPT !.UnbondingOnHoldRefCount = @ + 1])

\* UnbondingCanComplete on the unbonding of a validator
UnbondingCanComplete(st, validator) ==
    SetValidator(st, [validator EXCEPT !.UnbondingOnHoldRefCount = @ - 1])

\* ------------------------------------------------------------------------
\* Actions on the staking store
\* ------------------------------------------------------------------------

\* the messages a create call may carry: two sound ones for operator A, one
\* for B, and one for each way a message can be wrong
GoodMsg(op, pk, amount) ==
    [ValidatorAddress |-> ValString(op),
     DelegatorAddress |-> AccString(op),
     Pubkey |-> pk,
     Commission |-> [Rate |-> 10, MaxRate |-> 20],
     Value |-> [Denom |-> BondDenom, Amount |-> amount]]

CreateMsgs ==
    {GoodMsg("A", "cA", MaxTokens), GoodMsg("B", "cB", 1), GoodMsg("B", "cA", 1),
     [GoodMsg("B", "cB", 1) EXCEPT !.ValidatorAddress = AccString("B")],
     [GoodMsg("B", "cB", 1) EXCEPT !.DelegatorAddress = NoAddr],
     [GoodMsg("B", "cB", 1) EXCEPT !.Commission.Rate = 0],
     [GoodMsg("B", "cB", 1) EXCEPT !.Commission.Rate = 30],
     [GoodMsg("B", "cB", 1) EXCEPT !.Value.Denom = "gas"]}

\* the addresses in the unbonding queue, counted with their repetitions
RECURSIVE SumLen(_, _)
SumLen(queue, keys) ==
    IF keys = {} THEN 0
    ELSE LET k == CHOOSE x \in keys : TRUE
         IN Len(queue[k]) + SumLen(queue, keys \ {k})

QueuedCount == SumLen(validatorQueue, DOMAIN validatorQueue)

\* the staking store after an operation, and what the operation was
StakingStep(end, id, callRec) ==
    /\ validatorRecords' = end.validatorRecords
    /\ validatorsByConsAddr' = end.validatorsByConsAddr
    /\ validatorsByPowerIndex' = end.validatorsByPowerIndex
    /\ validatorQueue' = end.validatorQueue
    /\ unbondingIndex' = end.unbondingIndex
    /\ unbondingId' = id
    /\ skPc' = IF end.abort = NoAbort THEN "run" ELSE "aborted"
    /\ skCall' = [callRec EXCEPT !.abort = end.abort]
    /\ UNCHANGED <<blockTime, blockHeight, allocVars, evmVars>>

\* a transaction that creates a validator
CreateValidator(msg, fail) ==
    /\ skPc = "run"
    /\ \E out \in {createNativeValidatorRun(StakingStore, msg, fail)} :
          StakingStep(out.store, unbondingId,
                      [NoStakingCall EXCEPT !.op = "createNativeValidator", !.msg = msg,
                                            !.fail = fail, !.err = out.err,
                                            !.trace = out.trace])

\* the stores after a call of the EVM creation, and what the call was
EvmStep(out, callRec) ==
    /\ validatorRecords' = out.store.store.validatorRecords
    /\ validatorsByConsAddr' = out.store.store.validatorsByConsAddr
    /\ validatorsByPowerIndex' = out.store.store.validatorsByPowerIndex
    /\ validatorQueue' = out.store.store.validatorQueue
    /\ unbondingIndex' = out.store.store.unbondingIndex
    /\ accountBalance' = out.store.accountBalance
    /\ notBondedPool' = out.store.notBondedPool
    /\ createValidatorMsgs' = out.store.createValidatorMsgs
    /\ skPc' = IF out.store.store.abort = NoAbort THEN "run" ELSE "aborted"
    /\ skCall' = [callRec EXCEPT !.err = out.err, !.trace = out.trace,
                                 !.abort = out.store.store.abort]
    /\ UNCHANGED <<unbondingId, blockTime, blockHeight, allocVars>>

\* the messages the EVM calls may carry: sound ones for both operators, and
\* one for each way a message can be wrong
EvmMsgs ==
    {GoodMsg("A", "cA", 1), GoodMsg("B", "cB", MaxTokens),
     [GoodMsg("B", "cB", 1) EXCEPT !.ValidatorAddress = AccString("B")],
     [GoodMsg("A", "cA", 1) EXCEPT !.DelegatorAddress = NoAddr],
     [GoodMsg("A", "cA", 1) EXCEPT !.Commission.Rate = 0],
     [GoodMsg("B", "cB", 1) EXCEPT !.Value.Denom = "gas"]}

\* what the callback of the keeper does: it is not set, it returns an error
\* for the check event or for the set event, or it returns nil
Callbacks == {"unset", "check", "set", "none"}

\* a transaction that calls CreateEvmStaking
CreateEvmStaking(msg, callback) ==
    /\ skPc = "run"
    /\ \E out \in {CreateEvmStakingRun(EvmStore, msg, callback)} :
          EvmStep(out, [NoStakingCall EXCEPT !.op = "CreateEvmStaking", !.msg = msg,
                                             !.fail = callback])

\* a call of CreateEvmValidator for an operator address
CreateEvmValidator(addr, fail) ==
    /\ skPc = "run"
    /\ \E out \in {CreateEvmValidatorRun(EvmStore, addr, fail)} :
          EvmStep(out, [NoStakingCall EXCEPT !.op = "CreateEvmValidator", !.addr = addr,
                                             !.msg = GetCreateValidatorMsgByValAddr(EvmStore, addr),
                                             !.fail = fail])

\* a delegation to a stored validator
AddTokens(addr, tokensToAdd) ==
    /\ skPc = "run"
    /\ validatorRecords[addr] # NoValidator
    /\ validatorRecords[addr].Tokens + tokensToAdd <= MaxTokens
    /\ validatorRecords[addr].DelegatorShares > 0 => validatorRecords[addr].Tokens > 0
    /\ AddTokensFromDel(validatorRecords[addr], tokensToAdd).DelegatorShares
          <= LegacyNewDec(MaxTokens)
    /\ StakingStep(AddValidatorTokensAndShares(StakingStore, validatorRecords[addr], tokensToAdd),
                   unbondingId,
                   [NoStakingCall EXCEPT !.op = "AddValidatorTokensAndShares",
                                         !.addr = addr, !.amount = tokensToAdd])

\* an undelegation of whole shares from a stored validator
RemoveShares(addr, wholeShares) ==
    /\ skPc = "run"
    /\ validatorRecords[addr] # NoValidator
    /\ LegacyNewDec(wholeShares) <= validatorRecords[addr].DelegatorShares
    /\ StakingStep(RemoveValidatorTokensAndShares(StakingStore, validatorRecords[addr],
                                                  LegacyNewDec(wholeShares)),
                   unbondingId,
                   [NoStakingCall EXCEPT !.op = "RemoveValidatorTokensAndShares",
                                         !.addr = addr, !.amount = wholeShares])

\* a slash of a stored validator that is bonded or unbonding
SlashTokens(addr, tokensToRemove) ==
    /\ skPc = "run"
    /\ validatorRecords[addr] # NoValidator
    /\ validatorRecords[addr].Status # "Unbonded"
    /\ tokensToRemove <= validatorRecords[addr].Tokens
    /\ StakingStep(RemoveValidatorTokens(StakingStore, validatorRecords[addr], tokensToRemove),
                   unbondingId,
                   [NoStakingCall EXCEPT !.op = "RemoveValidatorTokens",
                                         !.addr = addr, !.amount = tokensToRemove])

\* a call of RemoveValidator on any address
CallRemoveValidator(addr) ==
    /\ skPc = "run"
    /\ StakingStep(RemoveValidator(StakingStore, addr), unbondingId,
                   [NoStakingCall EXCEPT !.op = "RemoveValidator", !.addr = addr])

\* the validator set update bonds a validator with power that is not jailed
Bond(addr) ==
    /\ skPc = "run"
    /\ validatorRecords[addr] # NoValidator
    /\ validatorRecords[addr].Status # "Bonded"
    /\ ~validatorRecords[addr].Jailed
    /\ TokensToConsensusPower(validatorRecords[addr].Tokens) > 0
    /\ StakingStep(bondValidator(StakingStore, validatorRecords[addr]), unbondingId,
                   [NoStakingCall EXCEPT !.op = "bondValidator", !.addr = addr])

\* the validator set update starts the unbonding of a bonded validator
BeginUnbonding(addr, completionTime, completionHeight) ==
    /\ skPc = "run"
    /\ validatorRecords[addr] # NoValidator
    /\ validatorRecords[addr].Status = "Bonded"
    /\ unbondingId < MaxUnbondings
    /\ StakingStep(beginUnbondingValidator(StakingStore, validatorRecords[addr],
                                           completionTime, completionHeight, unbondingId + 1),
                   unbondingId + 1,
                   [NoStakingCall EXCEPT !.op = "beginUnbondingValidator", !.addr = addr,
                                         !.key = <<completionTime, completionHeight>>])

\* a bonded validator is jailed for a fault
Jail(addr) ==
    /\ skPc = "run"
    /\ validatorRecords[addr] # NoValidator
    /\ validatorRecords[addr].Status = "Bonded"
    /\ ~validatorRecords[addr].Jailed
    /\ StakingStep(jailValidator(StakingStore, validatorRecords[addr]), unbondingId,
                   [NoStakingCall EXCEPT !.op = "jailValidator", !.addr = addr])

\* the operator of a jailed validator has it unjailed
Unjail(addr) ==
    /\ skPc = "run"
    /\ validatorRecords[addr] # NoValidator
    /\ validatorRecords[addr].Jailed
    /\ StakingStep(unjailValidator(StakingStore, validatorRecords[addr]), unbondingId,
                   [NoStakingCall EXCEPT !.op = "unjailValidator", !.addr = addr])

\* an external caller puts the unbonding of a validator on hold
Hold(addr) ==
    /\ skPc = "run"
    /\ validatorRecords[addr] # NoValidator
    /\ validatorRecords[addr].Status = "Unbonding"
    /\ validatorRecords[addr].UnbondingOnHoldRefCount < MaxHolds
    /\ StakingStep(PutUnbondingOnHold(StakingStore, validatorRecords[addr]), unbondingId,
                   [NoStakingCall EXCEPT !.op = "PutUnbondingOnHold", !.addr = addr])

\* the external caller releases a hold
Release(addr) ==
    /\ skPc = "run"
    /\ validatorRecords[addr] # NoValidator
    /\ validatorRecords[addr].UnbondingOnHoldRefCount > 0
    /\ StakingStep(UnbondingCanComplete(StakingStore, validatorRecords[addr]), unbondingId,
                   [NoStakingCall EXCEPT !.op = "UnbondingCanComplete", !.addr = addr])

\* the end of block call of Keeper.UnbondAllMatureValidators, the whole of it
UnbondAllMatureValidators ==
    /\ skPc = "run"
    /\ \E end \in {UnbondAllMatureValidatorsRun(StakingStore, blockTime, blockHeight)} :
          StakingStep(end, unbondingId,
                      [NoStakingCall EXCEPT
                          !.op = "UnbondAllMatureValidators",
                          !.trace = end.trace,
                          !.repeat = (skCall.op = "UnbondAllMatureValidators"),
                          !.prev = IF skCall.op = "UnbondAllMatureValidators"
                                   THEN skCall.trace ELSE <<>>])

\* the next block begins: the height grows by one, the time by at least one
NextBlock(time) ==
    /\ skPc = "run"
    /\ blockHeight < MaxTime
    /\ time > blockTime
    /\ blockHeight' = blockHeight + 1
    /\ blockTime' = time
    /\ skCall' = [NoStakingCall EXCEPT !.op = "NextBlock"]
    /\ UNCHANGED <<validatorRecords, validatorsByConsAddr, validatorsByPowerIndex,
                   validatorQueue, unbondingIndex, unbondingId, skPc, allocVars,
                   evmVars>>

\* a call of InsertUnbondingValidatorQueue with the record stored for an
\* address
InsertQueue(addr) ==
    /\ skPc = "run"
    /\ validatorRecords[addr] # NoValidator
    /\ QueuedCount < MaxQueued
    /\ StakingStep(InsertUnbondingValidatorQueue(StakingStore, validatorRecords[addr]),
                   unbondingId,
                   [NoStakingCall EXCEPT
                       !.op = "InsertUnbondingValidatorQueue",
                       !.addr = addr,
                       !.key = <<validatorRecords[addr].UnbondingTime,
                                 validatorRecords[addr].UnbondingHeight>>])

\* a call of DeleteValidatorQueue with the record stored for an address
DeleteQueue(addr) ==
    /\ skPc = "run"
    /\ validatorRecords[addr] # NoValidator
    /\ StakingStep(DeleteValidatorQueue(StakingStore, validatorRecords[addr]),
                   unbondingId,
                   [NoStakingCall EXCEPT
                       !.op = "DeleteValidatorQueue",
                       !.addr = addr,
                       !.key = <<validatorRecords[addr].UnbondingTime,
                                 validatorRecords[addr].UnbondingHeight>>])

\* the transactions and validator set updates on validators that are not
\* unbonding
StakingNext ==
    \/ \E msg \in CreateMsgs : CreateValidator(msg, "none")
    \/ \E fail \in {"hook", "delegate"} : CreateValidator(GoodMsg("B", "cB", 1), fail)
    \/ \E addr \in Operators, amount \in 1..MaxTokens : AddTokens(addr, amount)
    \/ \E addr \in Operators, amount \in 1..MaxTokens : RemoveShares(addr, amount)
    \/ \E addr \in Operators, amount \in 1..MaxTokens : SlashTokens(addr, amount)
    \/ \E addr \in Operators : CallRemoveValidator(addr)
    \/ \E addr \in Operators : Bond(addr)
    \/ \E addr \in Operators : Jail(addr)
    \/ \E addr \in Operators : Unjail(addr)

StakingSpec == StakingSpecInit /\ [][StakingNext]_vars

\* the unbonding of validators: the transactions of block 0 create and bond
\* the validators, take shares from them and begin their unbonding; holds,
\* releases, calls of RemoveValidator and maturations come at any block
UnbondingNext ==
    \/ /\ blockHeight = 0
       /\ \/ \E msg \in {GoodMsg("A", "cA", MaxTokens), GoodMsg("B", "cB", MaxTokens),
                            GoodMsg("B", "cA", MaxTokens)} :
                CreateValidator(msg, "none")
          \/ \E addr \in Operators, amount \in 1..MaxTokens : RemoveShares(addr, amount)
          \/ \E amount \in 1..MaxTokens : SlashTokens("A", amount)
          \/ \E addr \in Operators :
                /\ validatorRecords[addr] # NoValidator
                /\ validatorRecords[addr].Status = "Unbonded"
                /\ Bond(addr)
          \/ \E addr \in Operators, key \in CompletionKeys :
                BeginUnbonding(addr, key[1], key[2])
    \/ \E addr \in Operators : CallRemoveValidator(addr)
    \/ \E addr \in Operators : Hold(addr)
    \/ \E addr \in Operators : Release(addr)
    \/ UnbondAllMatureValidators
    \/ \E time \in 1..MaxTime : NextBlock(time)

UnbondingSpec == StakingSpecInit /\ [][UnbondingNext]_vars

\* the unbonding queue under direct calls of its insert and delete
\* operations: the transactions of block 0 create the validators, bond
\* those that never unbonded, begin their unbonding, take all their shares
\* and remove them; inserts, deletes and maturations come at any block
QueueNext ==
    \/ /\ blockHeight = 0
       /\ \/ \E msg \in {GoodMsg("A", "cA", MaxTokens),
                            [GoodMsg("B", "cB", MaxTokens) EXCEPT
                                !.ValidatorAddress = <<"VALOPER", "B">>]} :
                CreateValidator(msg, "none")
          \/ \E addr \in Operators :
                /\ validatorRecords[addr] # NoValidator
                /\ validatorRecords[addr].Status = "Unbonded"
                /\ validatorRecords[addr].UnbondingIds = <<>>
                /\ Bond(addr)
          \/ \E addr \in Operators, key \in EarlyCompletionKeys :
                BeginUnbonding(addr, key[1], key[2])
          \/ RemoveShares("A", MaxTokens)
          \/ CallRemoveValidator("A")
    \/ \E addr \in Operators : InsertQueue(addr)
    \/ \E addr \in Operators : DeleteQueue(addr)
    \/ UnbondAllMatureValidators
    \/ \E time \in 1..MaxTime : NextBlock(time)

QueueSpec == StakingSpecInit /\ [][QueueNext]_vars

\* ------------------------------------------------------------------------
\* The keys of the store as bytes
\* ------------------------------------------------------------------------

\* the first byte of the keys of each index
KeyPrefix ==
    [LastValidatorPowerKey |-> 17,
     ValidatorsKey |-> 33,
     ValidatorsByConsAddrKey |-> 34,
     ValidatorsByPowerIndexKey |-> 35,
     ValidatorQueueKey |-> 67]

\* valAddr.Bytes(): the bytes of the operator addresses, two of them for
\* the twenty of an address.  Those of A begin with the byte 0x21.
Bytes(addr) == IF addr = "A" THEN <<33, 65>> ELSE <<98, 66>>

\* the bytes of the consensus addresses
ConsBytes(consAddr) == IF consAddr = "cA" THEN <<12, 65>> ELSE <<12, 66>>

\* types.GetValidatorKey: the prefix, the length of the address, its bytes
ValidatorKeyBytes(addr) ==
    <<KeyPrefix.ValidatorsKey, Len(Bytes(addr))>> \o Bytes(addr)

\* types.GetValidatorByConsAddrKey
ValidatorByConsAddrKeyBytes(consAddr) ==
    <<KeyPrefix.ValidatorsByConsAddrKey, Len(ConsBytes(consAddr))>> \o ConsBytes(consAddr)

\* types.GetValidatorsByPowerIndexKey: the power, then the length and the
\* inverted bytes of the operator address
ValidatorsByPowerIndexKeyBytes(k) ==
    <<KeyPrefix.ValidatorsByPowerIndexKey, k[1], Len(Bytes(k[2]))>>
        \o [i \in 1..Len(Bytes(k[2])) |-> 255 - Bytes(k[2])[i]]

\* types.GetValidatorQueueKey: the time, then the height
ValidatorQueueKeyBytes(k) == <<KeyPrefix.ValidatorQueueKey, k[1], k[2]>>

\* the keys of the validator records, their indexes, the queue and the
\* create messages that the KVStore of the keeper holds, each with the index
\* it was written for; a create message is written for none of them
StoreKeys ==
    {[key |-> ValidatorKeyBytes(a), index |-> "ValidatorsKey"] :
        a \in {o \in Operators : validatorRecords[o] # NoValidator}}
    \cup {[key |-> ValidatorByConsAddrKeyBytes(c), index |-> "ValidatorsByConsAddrKey"] :
        c \in {x \in ConsKeys : validatorsByConsAddr[x] # NoOperator}}
    \cup {[key |-> ValidatorsByPowerIndexKeyBytes(k), index |-> "ValidatorsByPowerIndexKey"] :
        k \in validatorsByPowerIndex}
    \cup {[key |-> ValidatorQueueKeyBytes(k), index |-> "ValidatorQueueKey"] :
        k \in DOMAIN validatorQueue}
    \cup {[key |-> Bytes(a), index |-> "none"] :
        a \in {o \in Operators : createValidatorMsgs[o] # NoBytes}}

\* sdk.KVStorePrefixIterator with a prefix of one byte: the entries whose key
\* begins with it
KVStorePrefixIterator(keys, prefix) == {e \in keys : e.key[1] = prefix}

\* the entries GetAllValidators unmarshals as validators
GetAllValidators == KVStorePrefixIterator(StoreKeys, KeyPrefix.ValidatorsKey)

\* the creation of validators in two calls: CreateEvmStaking with any of
\* the messages when the callback returns nil and with a sound message for
\* the other answers of the callback, CreateEvmValidator for any operator
\* address, with a collaborator that fails for operator A
EvmNext ==
    \/ \E msg \in EvmMsgs : CreateEvmStaking(msg, "none")
    \/ \E callback \in Callbacks : CreateEvmStaking(GoodMsg("A", "cA", 1), callback)
    \/ \E addr \in Operators : CreateEvmValidator(addr, "none")
    \/ \E fail \in {"hook", "delegate"} : CreateEvmValidator("A", fail)

EvmSpec == StakingSpecInit /\ [][EvmNext]_vars

\* blocks one time unit apart with the end of block maturation: the
\* transactions of block 0 create and bond the validators, take all their
\* shares and begin their unbonding; holds and releases come at any block.
\* The chain goes on to the next block, and the end blocker calls
\* UnbondAllMatureValidators in every block, so that neither waits for ever.
LiveNext ==
    \/ /\ blockHeight = 0
       /\ \/ \E msg \in {GoodMsg("A", "cA", MaxTokens), GoodMsg("B", "cB", MaxTokens)} :
                CreateValidator(msg, "none")
          \/ \E addr \in Operators :
                /\ validatorRecords[addr] # NoValidator
                /\ validatorRecords[addr].Status = "Unbonded"
                /\ Bond(addr)
          \/ \E addr \in Operators, key \in CompletionKeys :
                BeginUnbonding(addr, key[1], key[2])
    \/ \E addr \in Operators :
          /\ validatorRecords[addr] # NoValidator
          /\ validatorRecords[addr].Status = "Unbonding"
          /\ RemoveShares(addr, MaxTokens)
    \/ \E addr \in Operators : Hold(addr)
    \/ \E addr \in Operators : Release(addr)
    \/ UnbondAllMatureValidators
    \/ NextBlock(blockTime + 1)

\* the end blocker has work: an entry that the iterator yields passes the
\* check on its key and names an unbonding validator without a hold.  A
\* call of UnbondAllMatureValidators changes the store in such a state.
MaturationDue ==
    /\ skPc = "run"
    /\ \E k \in DOMAIN validatorQueue, addr \in Operators :
          /\ k = <<blockTime, blockHeight>> \/ QueueKeyLess(k, <<blockTime, blockHeight>>)
          /\ IsMature(k[1], k[2], blockTime, blockHeight)
          /\ \E i \in 1..Len(validatorQueue[k]) : validatorQueue[k][i] = ValString(addr)
          /\ validatorRecords[addr] # NoValidator
          /\ validatorRecords[addr].Status = "Unbonding"
          /\ validatorRecords[addr].UnbondingOnHoldRefCount = 0

\* weak fairness of the next block, and of the end blocker's call where it
\* has work: WF_vars(UnbondAllMatureValidators) with the states where the
\* call is enabled narrowed to those of MaturationDue, which it implies
LiveSpec ==
    /\ StakingSpecInit
    /\ [][LiveNext]_vars
    /\ WF_vars(NextBlock(blockTime + 1))
    /\ \/ []<>(~MaturationDue)
       \/ []<><<UnbondAllMatureValidators>>_vars

\* ========================================================================
\* Claims on the validator store
\* ========================================================================

\* Keeper.ValidatorsPowerStoreIterator: the keys of the power index from the
\* greatest power down
RECURSIVE ValidatorsPowerStoreIterator(_)
ValidatorsPowerStoreIterator(keys) ==
    IF keys = {} THEN <<>>
    ELSE LET first == CHOOSE k \in keys : \A o \in keys : o[1] <= k[1]
         IN <<first>> \o ValidatorsPowerStoreIterator(keys \ {first})

\* the power index entries of an operator address
PowerEntries(addr) == {k \in validatorsByPowerIndex : k[2] = addr}

\* the consensus power of the tokens of the record stored for an address
StoredPower(addr) == TokensToConsensusPower(validatorRecords[addr].Tokens)

\* C12: the power index holds exactly one entry for every stored validator
\* that is not jailed, at the power of its stored tokens, and none for a
\* jailed one, so that the iteration from the greatest key down meets the
\* stored validators in non-increasing order of power
C12_PowerIndexConsistent ==
    /\ \A addr \in Operators :
          validatorRecords[addr] # NoValidator =>
              IF validatorRecords[addr].Jailed THEN PowerEntries(addr) = {}
              ELSE PowerEntries(addr) = {<<StoredPower(addr), addr>>}
    /\ LET it == ValidatorsPowerStoreIterator(validatorsByPowerIndex)
       IN /\ \A i \in 1..Len(it) : validatorRecords[it[i][2]] # NoValidator
          /\ \A i, j \in 1..Len(it) :
                i < j => StoredPower(it[i][2]) >= StoredPower(it[j][2])

\* tokens were added to a jailed validator while another validator with
\* power is in the index
C12_Witness ==
    /\ skCall.op = "AddValidatorTokensAndShares"
    /\ validatorRecords[skCall.addr].Jailed
    /\ StoredPower(skCall.addr) > 0
    /\ \E other \in Operators \ {skCall.addr} :
          /\ validatorRecords[other] # NoValidator
          /\ ~validatorRecords[other].Jailed
          /\ StoredPower(other) > 0

\* the record, the cons-addr index and the power index are left as they were
IndexesUnchanged ==
    UNCHANGED <<validatorRecords, validatorsByConsAddr, validatorsByPowerIndex>>

\* C13: RemoveValidator on a stored validator that is not Unbonded, or that
\* has tokens, panics and leaves the records, the cons-addr index and the
\* power index as they were; on an address without a record it returns and
\* changes nothing
C13_DeleteGuard ==
    [][skCall'.op = "RemoveValidator" =>
          LET validator == validatorRecords[skCall'.addr]
          IN /\ (validator # NoValidator
                 /\ (validator.Status # "Unbonded" \/ validator.Tokens > 0)) =>
                    skPc' = "aborted" /\ IndexesUnchanged
             /\ validator = NoValidator =>
                    skPc' = "run" /\ IndexesUnchanged /\ UNCHANGED validatorQueue]_vars

\* RemoveValidator was called on an unbonding validator without tokens
C13_Witness ==
    /\ skCall.op = "RemoveValidator"
    /\ skPc = "aborted"
    /\ validatorRecords[skCall.addr] # NoValidator
    /\ validatorRecords[skCall.addr].Status = "Unbonding"
    /\ validatorRecords[skCall.addr].Tokens = 0

\* the step removes the record stored for the address
Removed(addr) ==
    validatorRecords[addr] # NoValidator /\ validatorRecords'[addr] = NoValidator

\* C14: a record is removed from the store only when its delegator shares
\* are zero and its status is Unbonded, which it is for a maturing validator
\* once UnbondingToUnbonded has run; a Bonded or Unbonding validator with
\* tokens is never removed
C14_DeletionPrecondition ==
    [][\A addr \in Operators :
          Removed(addr) =>
              LET validator == validatorRecords[addr]
              IN /\ validator.DelegatorShares = 0
                 /\ \/ validator.Status = "Unbonded"
                    \/ /\ skCall'.op = "UnbondAllMatureValidators"
                       /\ validator.Status = "Unbonding"
                 /\ validator.Status # "Unbonded" => validator.Tokens = 0]_vars

\* the address is in the queue entry at the completion time and height of
\* its record, and the entry is mature at the block of the store
QueuedAndMature(addr) ==
    LET validator == validatorRecords[addr]
        key == <<validator.UnbondingTime, validator.UnbondingHeight>>
    IN /\ key \in DOMAIN validatorQueue
       /\ \E i \in 1..Len(validatorQueue[key]) : validatorQueue[key][i] = ValString(addr)
       /\ IsMature(key[1], key[2], blockTime, blockHeight)

\* the queue entries that hold the address
QueueKeysOf(queue, addr) ==
    {k \in DOMAIN queue : \E i \in 1..Len(queue[k]) : queue[k][i] = ValString(addr)}

\* the step is a call of UnbondAllMatureValidators
MaturationStep == skCall'.op = "UnbondAllMatureValidators"

\* C15: a maturation that meets a queued validator with no hold and no
\* delegator shares returns and leaves no record of it, no cons-addr entry,
\* no power index entry and no occurrence of its address in the queue
C15_FullRemovalOnMaturation ==
    [][\A addr \in Operators :
          (/\ MaturationStep
           /\ validatorRecords[addr] # NoValidator
           /\ validatorRecords[addr].Status = "Unbonding"
           /\ validatorRecords[addr].UnbondingOnHoldRefCount = 0
           /\ validatorRecords[addr].DelegatorShares = 0
           /\ QueuedAndMature(addr)) =>
              /\ skPc' = "run"
              /\ validatorRecords'[addr] = NoValidator
              /\ \A consAddr \in ConsKeys : validatorsByConsAddr'[consAddr] # addr
              /\ \A k \in validatorsByPowerIndex' : k[2] # addr
              /\ QueueKeysOf(validatorQueue', addr) = {}]_vars

\* a maturation removed a validator while another address stays queued
C15_Witness ==
    /\ skCall.op = "UnbondAllMatureValidators"
    /\ skPc = "run"
    /\ \E i \in 1..Len(skCall.trace) :
          /\ skCall.trace[i].removed
          /\ validatorRecords[skCall.trace[i].addr] = NoValidator
          /\ \E other \in Operators \ {skCall.trace[i].addr} :
                QueueKeysOf(validatorQueue, other) # {}

\* the whole store is left as it was
StoreUnchanged ==
    UNCHANGED <<validatorRecords, validatorsByConsAddr, validatorsByPowerIndex,
                validatorQueue, unbondingIndex>>

\* C16: a call of UnbondAllMatureValidators that comes right after one that
\* returned, at the same block time and height, returns and changes no
\* record, no index and no queue entry
C16_IdempotentMaturation ==
    [][(/\ skCall.op = "UnbondAllMatureValidators"
        /\ skPc = "run"
        /\ MaturationStep) =>
           /\ skPc' = "run"
           /\ skCall'.trace = <<>>
           /\ StoreUnchanged]_vars

\* the second of two calls, the first of which matured a validator, with a
\* validator on hold in a mature queue entry
C16_Witness ==
    /\ skCall.op = "UnbondAllMatureValidators"
    /\ skCall.repeat
    /\ skCall.prev # <<>>
    /\ \E addr \in Operators :
          /\ validatorRecords[addr] # NoValidator
          /\ validatorRecords[addr].UnbondingOnHoldRefCount > 0
          /\ QueuedAndMature(addr)

\* C17: a maturation leaves a queued validator on hold as it is, whatever
\* the block: the record is the same, with status Unbonding, and the address
\* is in the queue entry of its completion time and height as before
C17_HoldUntouched ==
    [][\A addr \in Operators :
          (/\ MaturationStep
           /\ validatorRecords[addr] # NoValidator
           /\ validatorRecords[addr].Status = "Unbonding"
           /\ validatorRecords[addr].UnbondingOnHoldRefCount > 0
           /\ QueueKeysOf(validatorQueue, addr) # {}) =>
              /\ validatorRecords'[addr] = validatorRecords[addr]
              /\ QueueKeysOf(validatorQueue', addr) = QueueKeysOf(validatorQueue, addr)
              /\ QueueKeysOf(validatorQueue', addr) =
                     {<<validatorRecords[addr].UnbondingTime,
                        validatorRecords[addr].UnbondingHeight>>}]_vars

\* a maturation at a block past the completion point of a validator on hold
\* matured the other validator of the same queue entry and took it out
C17_Witness ==
    /\ skCall.op = "UnbondAllMatureValidators"
    /\ skPc = "run"
    /\ \E addr \in Operators :
          /\ validatorRecords[addr] # NoValidator
          /\ validatorRecords[addr].Status = "Unbonding"
          /\ validatorRecords[addr].UnbondingOnHoldRefCount > 0
          /\ validatorRecords[addr].UnbondingTime < blockTime
          /\ validatorRecords[addr].UnbondingHeight < blockHeight
          /\ \E i \in 1..Len(skCall.trace) :
                /\ skCall.trace[i].addr # addr
                /\ skCall.trace[i].key = <<validatorRecords[addr].UnbondingTime,
                                           validatorRecords[addr].UnbondingHeight>>
                /\ QueueKeysOf(validatorQueue, skCall.trace[i].addr) = {}

\* the operator addresses of a queue entry
EntryAddrs(entry) == {ValAddressFromBech32(entry[i]).bytes : i \in 1..Len(entry)}

\* C18: a maturation at block (time, height) leaves as they are the queue
\* entries whose completion time or completion height is later and the
\* validators in them, and it matures every validator without a hold of
\* every entry whose completion time and completion height have come
C18_MaturityGating ==
    [][MaturationStep =>
          \A k \in DOMAIN validatorQueue :
             IF k[1] <= blockTime /\ k[2] <= blockHeight
             THEN \A addr \in EntryAddrs(validatorQueue[k]) :
                     validatorRecords[addr].UnbondingOnHoldRefCount = 0 =>
                        /\ \E i \in 1..Len(skCall'.trace) :
                              skCall'.trace[i].addr = addr /\ skCall'.trace[i].key = k
                        /\ \/ validatorRecords'[addr] = NoValidator
                           \/ validatorRecords'[addr].Status = "Unbonded"
                        /\ addr \notin EntryAddrs(GetUnbondingValidators(
                                          [validatorQueue |-> validatorQueue'], k[1], k[2]))
             ELSE /\ k \in DOMAIN validatorQueue'
                  /\ validatorQueue'[k] = validatorQueue[k]
                  /\ \A addr \in EntryAddrs(validatorQueue[k]) :
                        validatorRecords'[addr] = validatorRecords[addr]]_vars

\* a maturation matured a validator and left another one whose completion
\* time has passed and whose completion height has not come
C18_Witness ==
    /\ skCall.op = "UnbondAllMatureValidators"
    /\ skPc = "run"
    /\ skCall.trace # <<>>
    /\ \E k \in DOMAIN validatorQueue :
          /\ k[1] < blockTime
          /\ k[2] > blockHeight
          /\ \E addr \in EntryAddrs(validatorQueue[k]) :
                /\ validatorRecords[addr].Status = "Unbonding"
                /\ validatorRecords[addr].UnbondingOnHoldRefCount = 0

\* C19: a maturation that meets a queued validator with no hold and with
\* delegator shares leaves its record stored with status Unbonded, its
\* tokens and shares as they were and no unbonding id
C19_ResidualShares ==
    [][\A addr \in Operators :
          (/\ MaturationStep
           /\ validatorRecords[addr] # NoValidator
           /\ validatorRecords[addr].Status = "Unbonding"
           /\ validatorRecords[addr].UnbondingOnHoldRefCount = 0
           /\ validatorRecords[addr].DelegatorShares > 0
           /\ QueuedAndMature(addr)) =>
              /\ validatorRecords'[addr] # NoValidator
              /\ validatorRecords'[addr].Status = "Unbonded"
              /\ validatorRecords'[addr].Tokens = validatorRecords[addr].Tokens
              /\ validatorRecords'[addr].DelegatorShares =
                     validatorRecords[addr].DelegatorShares
              /\ validatorRecords'[addr].UnbondingIds = <<>>]_vars

\* the message names an operator that has a record, a public key whose
\* consensus address is indexed, a commission rate under the minimum or a
\* denomination that is not the bond denomination
Rejectable(msg) ==
    LET valAddr == ValAddressFromBech32(msg.ValidatorAddress)
    IN \/ (~valAddr.err /\ validatorRecords[valAddr.bytes] # NoValidator)
       \/ validatorsByConsAddr[msg.Pubkey] # NoOperator
       \/ msg.Commission.Rate < MinCommissionRate
       \/ msg.Value.Denom # BondDenom

\* C20: createNativeValidator returns an error and writes no record, no
\* cons-addr entry and no power index entry for a duplicate operator, a
\* duplicate public key, a commission rate under the minimum or a wrong
\* denomination
C20_CreateRejections ==
    [][(skCall'.op = "createNativeValidator" /\ Rejectable(skCall'.msg)) =>
           /\ skCall'.err # NoError
           /\ skCall'.trace = <<>>
           /\ IndexesUnchanged]_vars

\* a create for a new operator was rejected for the public key of a stored
\* validator
C20_Witness ==
    /\ skCall.op = "createNativeValidator"
    /\ skCall.err # NoError
    /\ skCall.msg.ValidatorAddress = ValString("B")
    /\ validatorRecords["B"] = NoValidator
    /\ skCall.msg.Pubkey = "cA"
    /\ validatorsByConsAddr["cA"] = "A"
    /\ skCall.msg.Commission.Rate >= MinCommissionRate
    /\ skCall.msg.Value.Denom = BondDenom

\* the stored validators
StoredOperators == {addr \in Operators : validatorRecords[addr] # NoValidator}

\* C30: every entry of the cons-addr index names a stored validator whose
\* consensus address is the key of the entry, every stored validator has
\* exactly one entry, and no two stored validators have the same operator
\* address or the same consensus address
C30_ConsAddrIntegrity ==
    /\ \A consAddr \in ConsKeys :
          validatorsByConsAddr[consAddr] # NoOperator =>
              /\ validatorsByConsAddr[consAddr] \in StoredOperators
              /\ validatorRecords[validatorsByConsAddr[consAddr]].ConsAddr = consAddr
    /\ \A addr \in StoredOperators :
          {consAddr \in ConsKeys : validatorsByConsAddr[consAddr] = addr}
              = {validatorRecords[addr].ConsAddr}
    /\ \A a, b \in StoredOperators :
          a # b => /\ validatorRecords[a].OperatorAddress # validatorRecords[b].OperatorAddress
                   /\ validatorRecords[a].ConsAddr # validatorRecords[b].ConsAddr
    /\ \A addr \in StoredOperators : GetOperator(validatorRecords[addr]) = addr

\* a maturation removed a validator, whose consensus address is free again,
\* while the other validator, created for a second operator, is stored
C30_Witness ==
    /\ skCall.op = "UnbondAllMatureValidators"
    /\ \E i \in 1..Len(skCall.trace) :
          /\ skCall.trace[i].removed
          /\ validatorRecords[skCall.trace[i].addr] = NoValidator
    /\ \E consAddr \in ConsKeys : validatorsByConsAddr[consAddr] = NoOperator
    /\ \E consAddr \in ConsKeys : validatorsByConsAddr[consAddr] = "B"

\* the places of a step in the trace of the last call
Places(step) == {i \in 1..Len(skCall.trace) : skCall.trace[i] = step}

\* every occurrence of the first step comes before every occurrence of the
\* second, and the second does not occur without the first
Precedes(first, second) ==
    \A j \in Places(second) : \E i \in Places(first) : i < j

\* C27: a create writes the record, the cons-addr entry and the power index
\* entry of a validator that is Unbonded and has no tokens, then runs the
\* after-creation hook, then delegates the initial tokens and then emits the
\* create_validator event, which it emits once when it returns no error and
\* never when it returns one
C27_CreateOrdering ==
    skCall.op = "createNativeValidator" =>
        /\ Precedes("SetValidator", "SetValidatorByConsAddr")
        /\ Precedes("SetValidatorByConsAddr", "SetNewValidatorByPowerIndex")
        /\ Precedes("SetNewValidatorByPowerIndex", "AfterValidatorCreated")
        /\ Precedes("AfterValidatorCreated", "Delegate")
        /\ Precedes("Delegate", "create_validator")
        /\ IF skCall.err = NoError
           THEN Cardinality(Places("create_validator")) = 1
           ELSE Places("create_validator") = {}
        /\ (Places("AfterValidatorCreated") # {} /\ skCall.err # NoError) =>
              LET addr == ValAddressFromBech32(skCall.msg.ValidatorAddress).bytes
              IN /\ validatorRecords[addr] # NoValidator
                 /\ validatorRecords[addr].Status = "Unbonded"
                 /\ validatorRecords[addr].Tokens = 0
                 /\ validatorsByConsAddr[skCall.msg.Pubkey] = addr
                 /\ <<0, addr>> \in validatorsByPowerIndex

\* a create returned no error and the validator has the tokens of the message
C27_Witness ==
    /\ skCall.op = "createNativeValidator"
    /\ skCall.err = NoError
    /\ Len(skCall.trace) = 6
    /\ LET addr == ValAddressFromBech32(skCall.msg.ValidatorAddress).bytes
       IN validatorRecords[addr].Tokens = skCall.msg.Value.Amount

\* ========================================================================
\* Claims on the unbonding queue under direct inserts and deletes
\* ========================================================================

\* C23: no key of the unbonding queue maps to an empty list, and a
\* DeleteValidatorQueue that takes the last address from the list of a key
\* deletes the key
C23_NoEmptyQueueEntries ==
    [][/\ \A k \in DOMAIN validatorQueue' : validatorQueue'[k] # <<>>
       /\ (skCall'.op = "DeleteValidatorQueue" /\ skCall'.key \in DOMAIN validatorQueue) =>
             IF EntryAddrs(validatorQueue[skCall'.key]) \subseteq {skCall'.addr}
             THEN skCall'.key \notin DOMAIN validatorQueue'
             ELSE /\ skCall'.key \in DOMAIN validatorQueue'
                  /\ skCall'.addr \notin EntryAddrs(validatorQueue'[skCall'.key])]_vars

\* a DeleteValidatorQueue deleted the key of a validator while another key
\* keeps its list
C23_Witness ==
    /\ skCall.op = "DeleteValidatorQueue"
    /\ skPc = "run"
    /\ skCall.key \notin DOMAIN validatorQueue
    /\ skCall.key # <<0, 0>>
    /\ DOMAIN validatorQueue # {}
    /\ validatorRecords[skCall.addr].Status = "Unbonding"

\* the list stored under a key of a queue, empty when the key is not set
EntryOf(queue, k) == IF k \in DOMAIN queue THEN queue[k] ELSE <<>>

\* C24: InsertUnbondingValidatorQueue appends the operator address of the
\* validator to the list of its completion time and height, leaves the
\* addresses of the list in their order and every other key as it is, and
\* for a validator that was not in the list a DeleteValidatorQueue for it
\* right after gives the queue of before the insert
C24_InsertCancelRoundTrip ==
    [][skCall'.op = "InsertUnbondingValidatorQueue" =>
          LET val == validatorRecords[skCall'.addr]
              key == <<val.UnbondingTime, val.UnbondingHeight>>
              queueAfter == validatorQueue'
          IN /\ key = skCall'.key
             /\ DOMAIN queueAfter = DOMAIN validatorQueue \cup {key}
             /\ queueAfter[key] = Append(EntryOf(validatorQueue, key), val.OperatorAddress)
             /\ \A k \in DOMAIN validatorQueue \ {key} : queueAfter[k] = validatorQueue[k]
             /\ skCall'.addr \notin EntryAddrs(EntryOf(validatorQueue, key)) =>
                   DeleteValidatorQueue([validatorQueue |-> queueAfter, abort |-> NoAbort],
                                        val)
                      = [validatorQueue |-> validatorQueue, abort |-> NoAbort]]_vars

\* an insert appended an address to a list that held another address
C24_Witness ==
    /\ skCall.op = "InsertUnbondingValidatorQueue"
    /\ skCall.key \in DOMAIN validatorQueue
    /\ Len(validatorQueue[skCall.key]) = 2
    /\ validatorQueue[skCall.key][2] = ValString(skCall.addr)
    /\ validatorQueue[skCall.key][1] # ValString(skCall.addr)

\* the addresses of the queue entries that are mature at the block of the
\* store
MatureAddrs ==
    UNION {EntryAddrs(validatorQueue[k]) :
              k \in {q \in DOMAIN validatorQueue :
                        IsMature(q[1], q[2], blockTime, blockHeight)}}

\* C26: a maturation panics when a mature queue entry holds the address of
\* a validator that has no record or whose stored status is not Unbonding,
\* and no maturation changes or deletes the record of a validator whose
\* stored status is Bonded or Unbonded, or writes one for an address that
\* has none
C26_StaleQueueEntries ==
    [][MaturationStep =>
          /\ (\E addr \in MatureAddrs :
                 \/ validatorRecords[addr] = NoValidator
                 \/ validatorRecords[addr].Status # "Unbonding") => skPc' = "aborted"
          /\ \A addr \in Operators :
                (\/ validatorRecords[addr] = NoValidator
                 \/ validatorRecords[addr].Status \in {"Bonded", "Unbonded"}) =>
                    validatorRecords'[addr] = validatorRecords[addr]]_vars

\* a maturation matured a validator and then panicked on the address of a
\* validator that has no record
C26_Witness ==
    /\ skCall.op = "UnbondAllMatureValidators"
    /\ skPc = "aborted"
    /\ skCall.abort = "validator in the unbonding queue was not found"
    /\ \E addr \in MatureAddrs : validatorRecords[addr] = NoValidator
    /\ \E addr \in Operators :
          /\ validatorRecords[addr] # NoValidator
          /\ validatorRecords[addr].Status = "Unbonded"
          /\ validatorRecords[addr].UnbondingIds # <<>>

\* ========================================================================
\* Liveness of the maturation
\* ========================================================================

\* the validator is unbonding and its address is in the queue
Pending(addr) ==
    /\ validatorRecords[addr] # NoValidator
    /\ validatorRecords[addr].Status = "Unbonding"
    /\ QueueKeysOf(validatorQueue, addr) # {}

\* the validator is Unbonded or deleted and its address is not in the queue
Completed(addr) ==
    /\ \/ validatorRecords[addr] = NoValidator
       \/ validatorRecords[addr].Status = "Unbonded"
    /\ QueueKeysOf(validatorQueue, addr) = {}

\* C25: with a maturation in every block and blocks that keep coming, a
\* queued unbonding validator without a hold is in the end Unbonded or
\* deleted and out of the queue, unless a hold is put on it before
C25_MaturationLiveness ==
    \A addr \in Operators :
        (Pending(addr) /\ validatorRecords[addr].UnbondingOnHoldRefCount = 0)
            ~> (\/ Completed(addr)
                \/ Pending(addr) /\ validatorRecords[addr].UnbondingOnHoldRefCount > 0)

\* a maturation completed the unbonding of a validator two blocks after its
\* completion time
C25_Witness ==
    /\ skCall.op = "UnbondAllMatureValidators"
    /\ \E i \in 1..Len(skCall.trace) :
          /\ Completed(skCall.trace[i].addr)
          /\ skCall.trace[i].key[1] < blockTime
    /\ \E addr \in Operators :
          Pending(addr) /\ validatorRecords[addr].UnbondingOnHoldRefCount > 0

\* ========================================================================
\* Claims on the creation of validators through the EVM callbacks
\* ========================================================================

\* the coins of the message of the last call
MsgCoins == NewCoins(skCall.msg.Value.Denom, skCall.msg.Value.Amount)

\* the step moved the coins of the message of the call from the account of
\* its delegator to the not bonded pool
Escrowed ==
    /\ notBondedPool' = CoinsAdd(notBondedPool, MsgCoins')
    /\ \E acc \in Operators :
          /\ skCall'.msg.DelegatorAddress = AccString(acc)
          /\ accountBalance' = [accountBalance EXCEPT ![acc] = CoinsSub(@, MsgCoins')]

\* the step moved no coins
BankUnchanged == <<accountBalance, notBondedPool>>' = <<accountBalance, notBondedPool>>

\* the step wrote no key of the staking store
StakingStoreUnchanged ==
    /\ createValidatorMsgs' = createValidatorMsgs
    /\ <<validatorRecords, validatorsByConsAddr, validatorsByPowerIndex,
         validatorQueue, unbondingIndex>>'
          = <<validatorRecords, validatorsByConsAddr, validatorsByPowerIndex,
              validatorQueue, unbondingIndex>>

\* C28: CreateEvmStaking without a callback returns an error and changes
\* nothing; no coins move unless the check callback returned nil; the
\* message is stored only after the coins are in the not bonded pool; the
\* set callback is called only after both; the validator_delegate event is
\* emitted only when the four steps went through, and then once
C28_CreateEvmStakingOrder ==
    [][skCall'.op = "CreateEvmStaking" =>
         LET check == "GovEventCheckValidatorStatus"
             escrow == "DelegateCoinsFromAccountToModule"
             store == "SetCreateValidatorMsgByValAddr"
             set == "GovEventSetValidatorStatus"
             event == "validator_delegate"
         IN /\ skCall'.fail = "unset" =>
                  /\ skCall'.err # NoError
                  /\ skCall'.trace = <<>>
                  /\ BankUnchanged /\ StakingStoreUnchanged
            /\ skCall'.fail = "check" =>
                  /\ skCall'.err # NoError
                  /\ BankUnchanged /\ StakingStoreUnchanged
            /\ ~BankUnchanged => Escrowed /\ Precedes(check, escrow)'
            /\ (BankUnchanged /\ MsgCoins' # ZeroCoins) => StakingStoreUnchanged
            /\ Places(store)' # {} =>
                  /\ Precedes(escrow, store)'
                  /\ Escrowed
                  /\ \E addr \in Operators :
                        /\ ValAddressFromBech32(skCall'.msg.ValidatorAddress).bytes = addr
                        /\ createValidatorMsgs' =
                              [createValidatorMsgs EXCEPT ![addr] = skCall'.msg]
            /\ Places(store)' = {} => createValidatorMsgs' = createValidatorMsgs
            /\ Precedes(escrow, set)' /\ Precedes(store, set)'
            /\ Precedes(set, event)'
            /\ Places(event)' # {} <=> skCall'.err = NoError
            /\ skCall'.err = NoError =>
                  /\ skCall'.fail = "none"
                  /\ skCall'.trace = <<check, escrow, store, set, event>>
            /\ <<validatorRecords, validatorsByConsAddr, validatorsByPowerIndex,
                 validatorQueue, unbondingIndex>>'
                  = <<validatorRecords, validatorsByConsAddr, validatorsByPowerIndex,
                      validatorQueue, unbondingIndex>>]_vars

\* a CreateEvmStaking went through all its steps for a second message after
\* another one stopped at the set callback with its coins in the pool
C28_Witness ==
    /\ skCall.op = "CreateEvmStaking"
    /\ skCall.err = NoError
    /\ Places("validator_delegate") # {}
    /\ createValidatorMsgs["B"] = skCall.msg
    /\ createValidatorMsgs["A"] # NoBytes
    /\ notBondedPool["stake"] = MaxTokens + 1
    /\ validatorRecords["A"] = NoValidator

\* the errors of the validation of a create message: a malformed address, a
\* commission below the floor or out of its bounds, a registered operator or
\* public key, a denomination that is not the bondable one
ValidationErrors ==
    {"decoding bech32 failed", "ErrCommissionLTMinRate", "ErrValidatorOwnerExists",
     "ErrValidatorPubKeyExists", "ErrInvalidRequest", "invalid commission"}

\* C21: a CreateEvmStaking or CreateEvmValidator that returns a validation
\* error has moved no coins between the not bonded pool and the account of
\* the delegator and has written no key of the store
C21_NoMutationOnValidationError ==
    [][(/\ skCall'.op \in {"CreateEvmStaking", "CreateEvmValidator"}
        /\ skCall'.err \in ValidationErrors)
          => BankUnchanged /\ StakingStoreUnchanged]_vars

\* the indexes that are read with a prefix iteration, and their prefixes
IteratedIndexes ==
    {[index |-> "ValidatorsKey", prefix |-> KeyPrefix.ValidatorsKey],
     [index |-> "ValidatorsByPowerIndexKey", prefix |-> KeyPrefix.ValidatorsByPowerIndexKey],
     [index |-> "LastValidatorPowerKey", prefix |-> KeyPrefix.LastValidatorPowerKey],
     [index |-> "ValidatorQueueKey", prefix |-> KeyPrefix.ValidatorQueueKey]}

\* C22: a prefix iteration over the validator records, the power index, the
\* last validator powers or the unbonding queue yields only entries written
\* for that index, and GetAllValidators never yields a create message
C22_KeySpaceSeparation ==
    /\ \A i \in IteratedIndexes :
          \A e \in KVStorePrefixIterator(StoreKeys, i.prefix) : e.index = i.index
    /\ \A e \in GetAllValidators : e.index # "none"


\* an earlier CreateEvmValidator for the address of the call has released
\* coins: the call before this one did, or the validator it went on to
\* create is stored
ReleasedBefore ==
    \/ /\ skCall.op = "CreateEvmValidator"
       /\ skCall.addr = skCall'.addr
       /\ Places("UndelegateCoinsFromModuleToAccount") # {}
    \/ validatorRecords[skCall'.addr] # NoValidator

\* the tokens of the stored validator of an address, none when there is none
StoredTokens(addr) ==
    IF validatorRecords[addr] = NoValidator THEN 0 ELSE validatorRecords[addr].Tokens

\* every escrow has been released: the not bonded pool holds the tokens of
\* the stored validators and nothing else
NoEscrowLeft ==
    notBondedPool = NewCoins(BondDenom, StoredTokens("A") + StoredTokens("B"))

\* C31: CreateEvmValidator for an address with no stored create message
\* returns an error and moves no coins; a call that releases coins and then
\* fails has taken the coins of the stored message, no more and no less, out
\* of the not bonded pool; a repeated call for the same address, made when
\* no escrow is left in the pool, takes no further coins out of the not
\* bonded pool
C31_EscrowReleasedOnce ==
    [][skCall'.op = "CreateEvmValidator" =>
         /\ createValidatorMsgs[skCall'.addr] = NoBytes =>
               skCall'.err # NoError /\ BankUnchanged
         /\ (Places("UndelegateCoinsFromModuleToAccount")' # {} /\ skCall'.err # NoError) =>
               notBondedPool' = CoinsSub(notBondedPool, MsgCoins')
         /\ (ReleasedBefore /\ NoEscrowLeft) =>
               \A d \in Denoms : notBondedPool'[d] >= notBondedPool[d]]_vars

\* ========================================================================
\* Solvency of the distribution module account over several blocks
\* ========================================================================

\* C29: after any number of AllocateTokens calls that returned, with
\* beneficiary transfers and burns that failed among them, the distribution
\* module account holds, in every denomination, at least the outstanding
\* rewards of all validators plus the community pool
C29_ModuleSolvency ==
    pc # "aborted" =>
        \A d \in Denoms : LegacyNewDec(moduleBalance[d]) >= Accounted(Store)[d]

\* the second block's call returned after a failed transfer or burn, the
\* first block's call has credited rewards, and the account holds more than
\* is owed
C29_Witness ==
    /\ pc = "returned"
    /\ blockHeight = 1
    /\ \E i \in 1..Len(call.fails) : call.fails[i] # "none"
    /\ outstandingRewards # pre.outstandingRewards
    /\ \E d \in Denoms : LegacyNewDec(moduleBalance[d]) > Accounted(Store)[d]
    /\ \A d \in Denoms : LegacyNewDec(moduleBalance[d]) >= Accounted(Store)[d]

====
